---- MODULE Spec2Model ----
(***************************************************************************)
(* Model of the Opik MCP evaluation server: the judge-response parser, the *)
(* metric evaluators, OpikEvaluator.evaluate_single_case,                  *)
(* AgentEvaluator.evaluate_agent, MultiAgentEvaluator (workflow and        *)
(* agent2agent flow) and the server tools evaluate_agent,                  *)
(* evaluate_multiagent_workflow and batch_evaluate_agents.                 *)
(*                                                                         *)
(* Scores are floats in the program.  They are modelled exactly, in        *)
(* hundredths: an EvaluationScore.score of 0.83 is the integer 83, and a   *)
(* mean (overall_score, average_score) is a reduced fraction               *)
(* [n |-> numerator, d |-> denominator] of hundredths.                     *)
(***************************************************************************)
EXTENDS Integers, Sequences, FiniteSets, TLC

\* ------------------------------------------------------------------ bounds
\* Largest number of test cases in one evaluate_agent request.
MaxCases == 2
\* Largest number of messages in a conversation.
MaxMessages == 2
\* Largest number of requests in one batch.
MaxItems == 2
MaxLines == 3
MaxRequests == 2

\* ------------------------------------------------------------- arithmetic
RECURSIVE GCD(_, _)
GCD(a, b) == IF b = 0 THEN a ELSE GCD(b, a % b)

\* The fraction num/den (den > 0, num >= 0) in lowest terms.
Rat(num, den) ==
    LET g == GCD(num, den) IN [n |-> num \div g, d |-> den \div g]

RatAdd(x, y) == Rat(x.n * y.d + y.n * x.d, x.d * y.d)

RatDiv(x, k) == Rat(x.n, x.d * k)

RECURSIVE SumSeq(_)
SumSeq(s) == IF s = <<>> THEN 0 ELSE Head(s) + SumSeq(Tail(s))

RECURSIVE RatSum(_)
RatSum(s) == IF s = <<>> THEN Rat(0, 1) ELSE RatAdd(Head(s), RatSum(Tail(s)))

\* ------------------------------------------------------------------ models
\* Python's None, for a field that holds a string.
None == "None"

\* str(uuid.uuid4()): the n-th identifier drawn, tagged with what it names.
Uuid(kind, n) == [k |-> kind, n |-> n]

\* Python's None, for a field that holds an identifier.
NoId == [k |-> None, n |-> 0]

\* models.py: class EvaluationMetric
EvaluationMetric ==
    {"accuracy", "relevance", "coherence", "completeness", "factuality",
     "helpfulness", "toxicity", "bias", "conversation_quality",
     "agent_coordination", "workflow_efficiency"}

\* models.py: class AgentType
AgentType == {"single", "multi_agent", "agent2agent", "graph", "swarm", "workflow"}

\* The passing threshold 0.7, in hundredths.
Threshold == 70

\* ------------------------------------------------------ judge and parser
\* A judge response is a sequence of lines.  A line is kept as the text
\* before its first colon, as written and without surrounding whitespace
\* ("SCORE", "Score", "EXPLANATION", or anything else), and the
\* whitespace-separated words after that colon.
Line(key, words) == [key |-> key, words |-> words]

\* str.upper() on the text before the colon.
Upper(str) ==
    CASE str \in {"SCORE", "Score", "score"} -> "SCORE"
      [] str \in {"EXPLANATION", "Explanation", "explanation"} -> "EXPLANATION"
      [] OTHER -> str

\* float('nan'), which compares false with every number.
NaN == 1000000

\* a < b on floats
Less(a, b) == a # NaN /\ b # NaN /\ a < b

\* float(score_str): the numeric value in hundredths, or a ValueError.
Float(str) ==
    CASE str = "1.0"  -> [ok |-> TRUE, val |-> 100]
      [] str = "0.83" -> [ok |-> TRUE, val |-> 83]
      [] str = "0.7"  -> [ok |-> TRUE, val |-> 70]
      [] str = "0.5"  -> [ok |-> TRUE, val |-> 50]
      [] str = "0.2"  -> [ok |-> TRUE, val |-> 20]
      [] str = "nan"  -> [ok |-> TRUE, val |-> NaN]
      [] str = "0.0"  -> [ok |-> TRUE, val |-> 0]
      [] str = "1.4"  -> [ok |-> TRUE, val |-> 140]
      [] str = "-0.3" -> [ok |-> TRUE, val |-> 0 - 30]
      [] OTHER        -> [ok |-> FALSE, val |-> 0]

Min(a, b) == IF Less(b, a) THEN b ELSE a
Max(a, b) == IF Less(a, b) THEN b ELSE a

\* Mutant of Clamp: only the upper limit.
ClampAbove(score) == Min(100, score)

\* max(0.0, min(1.0, score))
Clamp(score) == Max(0, Min(100, score))

\* Mutant of ParseLines: the lines are read from the last to the first, so
\* that the first SCORE and EXPLANATION lines win.
RECURSIVE ParseLinesBackwards(_, _)
ParseLinesBackwards(lines, acc) ==
    IF lines = <<>> \/ acc.raised THEN acc
    ELSE LET line == lines[Len(lines)]
             score_str == IF line.words # <<>> THEN Head(line.words) ELSE "0.5"
             f == Float(score_str)
         IN  ParseLinesBackwards(SubSeq(lines, 1, Len(lines) - 1),
                CASE Upper(line.key) = "SCORE" /\ f.ok ->
                        [acc EXCEPT !.score = f.val]
                  [] Upper(line.key) = "SCORE" /\ ~f.ok ->
                        [acc EXCEPT !.raised = TRUE]
                  [] Upper(line.key) = "EXPLANATION" ->
                        [acc EXCEPT !.explanation = line.words]
                  [] OTHER -> acc)

\* The loop of _parse_llm_response over the lines: the running
\* (score, explanation) pair, or an exception raised by float().
RECURSIVE ParseLines(_, _)
ParseLines(lines, acc) ==
    IF lines = <<>> \/ acc.raised THEN acc
    ELSE LET line == Head(lines)
             score_str == IF line.words # <<>> THEN Head(line.words) ELSE "0.5"
             f == Float(score_str)
         IN  ParseLines(Tail(lines),
                CASE Upper(line.key) = "SCORE" /\ f.ok ->
                        [acc EXCEPT !.score = f.val]
                  [] Upper(line.key) = "SCORE" /\ ~f.ok ->
                        [acc EXCEPT !.raised = TRUE]
                  [] Upper(line.key) = "EXPLANATION" ->
                        [acc EXCEPT !.explanation = line.words]
                  [] OTHER -> acc)

\* Mutant of parse_llm_response: the score starts at 0.0.
ParseDefaultZero(response) ==
    LET acc == ParseLines(response,
                   [score |-> 0, explanation |-> <<"Evaluation completed">>,
                    raised |-> FALSE])
    IN  IF acc.raised
        THEN [score |-> 50, explanation |-> <<"Failed to parse evaluation">>]
        ELSE [score |-> Clamp(acc.score), explanation |-> acc.explanation]

\* Mutant of parse_llm_response: a failure of float() keeps what was parsed
\* before it.
ParseKeepsOnFailure(response) ==
    LET acc == ParseLines(response,
                   [score |-> 50, explanation |-> <<"Evaluation completed">>,
                    raised |-> FALSE])
    IN  [score |-> Clamp(acc.score), explanation |-> acc.explanation]

\* LLMEvaluator._parse_llm_response
parse_llm_response(response) ==
    LET acc == ParseLines(response,
                   [score |-> 50, explanation |-> <<"Evaluation completed">>,
                    raised |-> FALSE])
    IN  IF acc.raised
        THEN [score |-> 50, explanation |-> <<"Failed to parse evaluation">>]
        ELSE [score |-> Clamp(acc.score), explanation |-> acc.explanation]

\* The text _call_claude returns when the model call fails.
SentinelText == <<Line("TEXT", <<"LLM evaluation failed">>)>>

\* What the judge can answer in this model.
JudgeTexts ==
    { <<Line("SCORE", <<"1.0">>), Line("EXPLANATION", <<"perfect">>)>>,
      <<Line("SCORE", <<"0.7">>), Line("EXPLANATION", <<"fair">>)>> }

\* The outcomes of the Bedrock call inside _call_claude: a text, or an error.
JudgeOutcomes ==
    [raised : {FALSE}, text : JudgeTexts] \cup {[raised |-> TRUE, text |-> <<>>]}

\* Mutant of call_claude: an error gives the empty text.
CallClaudeEmptyOnError(outcome) == outcome.text

\* LLMEvaluator._call_claude: never raises, an error becomes the sentinel.
call_claude(outcome) == IF outcome.raised THEN SentinelText ELSE outcome.text

\* ------------------------------------------------------- metric evaluators
\* OpikEvaluator.__init__: the metrics that have an evaluator of their own.
metric_mapping ==
    {"accuracy", "relevance", "coherence", "helpfulness",
     "conversation_quality", "agent_coordination", "workflow_efficiency"}

\* Mutant of get_metric_evaluators: a metric without a mapping gets the
\* relevance evaluator.
GetEvaluatorsFallbackRelevance(metrics) ==
    [i \in 1..Len(metrics) |->
        IF metrics[i] \in metric_mapping THEN metrics[i] ELSE "relevance"]

\* OpikEvaluator._get_metric_evaluators: one evaluator per metric, the
\* accuracy evaluator for a metric without a mapping.
get_metric_evaluators(metrics) ==
    [i \in 1..Len(metrics) |->
        IF metrics[i] \in metric_mapping THEN metrics[i] ELSE "accuracy"]

\* A metric without a mapping makes _get_metric_evaluators construct a new
\* AccuracyMetric, and LLMEvaluator.__init__ opens a boto3 session, which can
\* raise: the outcomes of resolving the evaluators of a metric list.
ResolveOutcomes(metrics) ==
    IF \E i \in 1..Len(metrics) : metrics[i] \notin metric_mapping
    THEN {"ok", "raises"} ELSE {"ok"}

\* Mutant of ShortCircuit: missing conversation data is scored 0.5.
ShortCircuitQualityNeutral(evaluator, input) ==
    CASE evaluator = "conversation_quality"
            /\ input.messages = <<>> /\ input.conversation = <<>> ->
            [hit |-> TRUE, score |-> 50,
             explanation |-> <<"No conversation data provided">>]
      [] evaluator = "agent_coordination" /\ Len(input.messages) < 2 ->
            [hit |-> TRUE, score |-> 50,
             explanation |-> <<"Insufficient messages for coordination evaluation">>]
      [] evaluator = "workflow_efficiency" /\ input.messages = <<>> ->
            [hit |-> TRUE, score |-> 50,
             explanation |-> <<"No workflow data provided">>]
      [] OTHER -> [hit |-> FALSE, score |-> 0, explanation |-> <<>>]

\* Mutant of ShortCircuit: the conversation-quality metric has no early
\* return.
ShortCircuitNoQualityCheck(evaluator, input) ==
    CASE evaluator = "agent_coordination" /\ Len(input.messages) < 2 ->
            [hit |-> TRUE, score |-> 50,
             explanation |-> <<"Insufficient messages for coordination evaluation">>]
      [] evaluator = "workflow_efficiency" /\ input.messages = <<>> ->
            [hit |-> TRUE, score |-> 50,
             explanation |-> <<"No workflow data provided">>]
      [] OTHER -> [hit |-> FALSE, score |-> 0, explanation |-> <<>>]

\* Mutant of ShortCircuit: the agent-coordination metric returns early only
\* for no message at all.
ShortCircuitCoordinationEmpty(evaluator, input) ==
    CASE evaluator = "conversation_quality"
            /\ input.messages = <<>> /\ input.conversation = <<>> ->
            [hit |-> TRUE, score |-> 0,
             explanation |-> <<"No conversation data provided">>]
      [] evaluator = "agent_coordination" /\ Len(input.messages) < 1 ->
            [hit |-> TRUE, score |-> 50,
             explanation |-> <<"Insufficient messages for coordination evaluation">>]
      [] evaluator = "workflow_efficiency" /\ input.messages = <<>> ->
            [hit |-> TRUE, score |-> 50,
             explanation |-> <<"No workflow data provided">>]
      [] OTHER -> [hit |-> FALSE, score |-> 0, explanation |-> <<>>]

\* The early returns of ConversationQualityMetric.score,
\* AgentCoordinationMetric.score and WorkflowEfficiencyMetric.score: the
\* (score, explanation) returned without a judge call, if any.
ShortCircuit(evaluator, input) ==
    CASE evaluator = "conversation_quality"
            /\ input.messages = <<>> /\ input.conversation = <<>> ->
            [hit |-> TRUE, score |-> 0,
             explanation |-> <<"No conversation data provided">>]
      [] evaluator = "agent_coordination" /\ Len(input.messages) < 2 ->
            [hit |-> TRUE, score |-> 50,
             explanation |-> <<"Insufficient messages for coordination evaluation">>]
      [] evaluator = "workflow_efficiency" /\ input.messages = <<>> ->
            [hit |-> TRUE, score |-> 50,
             explanation |-> <<"No workflow data provided">>]
      [] OTHER -> [hit |-> FALSE, score |-> 0, explanation |-> <<>>]

\* models.py EvaluationScore, as built in the try block of the metric loop.
EvaluationScore(metric, score_value, explanation) ==
    [metric |-> metric, score |-> score_value, explanation |-> explanation,
     passed |-> score_value >= Threshold]

\* Mutant of FallbackScore: a failed metric gets the neutral score 0.5.
FallbackScoreNeutral(metric) ==
    [metric |-> metric, score |-> 50, explanation |-> <<"Evaluation failed">>,
     passed |-> FALSE]

\* The fallback of the except block of the metric loop.
FallbackScore(metric) ==
    [metric |-> metric, score |-> 0, explanation |-> <<"Evaluation failed">>,
     passed |-> FALSE]

ScoreValues(scores) == [i \in 1..Len(scores) |-> scores[i].score]

\* Mutant of OverallScore: an empty list scores 1.0.
OverallScoreEmptyIsOne(scores) ==
    IF scores = <<>> THEN Rat(100, 1) ELSE Rat(SumSeq(ScoreValues(scores)), Len(scores))

\* sum(s.score for s in scores) / len(scores) if scores else 0.0
OverallScore(scores) ==
    IF scores = <<>> THEN Rat(0, 1) ELSE Rat(SumSeq(ScoreValues(scores)), Len(scores))

\* Mutant of Passed: the threshold itself does not pass.
PassedStrict(overall) == overall.n > Threshold * overall.d

\* overall_score >= 0.7
Passed(overall) == overall.n >= Threshold * overall.d

\* Mutant of log_trace_to_opik: no trace id when the sink raises.
LogTraceNoneOnFailure(evaluation_id, sink) ==
    IF sink = "ok" THEN [k |-> "trace", n |-> evaluation_id.n]
    ELSE IF sink = "no_id" THEN evaluation_id ELSE NoId

\* OpikEvaluator._log_trace_to_opik: the trace id of the sink, or the
\* evaluation id when the trace has no id or the sink raises.
log_trace_to_opik(evaluation_id, sink) ==
    IF sink = "ok" THEN [k |-> "trace", n |-> evaluation_id.n] ELSE evaluation_id

\* models.py EvaluationResult
EvaluationResult(id, agent, workflow, test_case, scored, overall, pass, trace, session, meta) ==
    [evaluation_id |-> id, agent_id |-> agent, workflow_id |-> workflow,
     test_case_id |-> test_case, scores |-> scored, overall_score |-> overall,
     passed |-> pass, opik_trace_id |-> trace, session_id |-> session,
     metadata |-> meta]

\* Mutant of execute_agent_safely: the timeout is caught by the general
\* handler.
ExecuteAgentTimeoutAsFailure(outcome) ==
    CASE outcome = "returns" -> "response"
      [] outcome = "timeout" -> "Agent execution failed: boom"
      [] outcome = "raises"  -> "Agent execution failed: boom"

\* AgentEvaluator._execute_agent_safely: the text that is evaluated.
execute_agent_safely(outcome) ==
    CASE outcome = "returns" -> "response"
      [] outcome = "timeout" -> "Agent execution timed out"
      [] outcome = "raises"  -> "Agent execution failed: boom"

AgentOutcomes == {"returns", "timeout", "raises"}

\* MultiAgentEvaluator._format_conversation: one line per message.
format_conversation(messages) ==
    [i \in 1..Len(messages) |->
        <<messages[i].from_agent, "->", messages[i].to_agent, messages[i].message>>]

\* The conversation of n messages between two agents.
Messages(n) ==
    [i \in 1..n |-> [from_agent |-> IF i % 2 = 1 THEN "a" ELSE "b",
                     to_agent |-> IF i % 2 = 1 THEN "b" ELSE "a",
                     message |-> "m"]]

\* ------------------------------------------------------------------ inputs
\* The metric lists of the single-agent requests.
SingleEvaluatorLists ==
    { <<>>, <<"accuracy">>, <<"accuracy", "relevance">>,
      <<"completeness", "agent_coordination">>,
      <<"accuracy", "conversation_quality">>,
      <<"conversation_quality", "workflow_efficiency">> }

\* The metric lists of the multi-agent requests.
MultiEvaluatorLists ==
    { <<>>, <<"conversation_quality">>,
      <<"agent_coordination", "workflow_efficiency">>, <<"bias">> }

\* A request whose evaluators hold a string that is no EvaluationMetric.
BadSingle ==
    [type |-> "single", invalid |-> "unknown_metric", agent_id |-> "agent-1",
     ncases |-> 1, evaluators |-> <<"accuracy">>]

BadMulti ==
    [type |-> "multiagent", invalid |-> "unknown_metric", workflow_id |-> "wf-1",
     workflow_type |-> "workflow", nmsgs |-> 1, evaluators |-> <<"accuracy">>]

\* The arguments of the tool evaluate_agent.
SingleRequests ==
    [type : {"single"}, invalid : {"none"}, agent_id : {"agent-1"},
     ncases : 0..MaxCases, evaluators : SingleEvaluatorLists] \cup {BadSingle}

\* The arguments of the tool evaluate_multiagent_workflow.
MultiRequests ==
    [type : {"multiagent"}, invalid : {"none"}, workflow_id : {"wf-1"},
     workflow_type : {"agent2agent", "workflow"}, nmsgs : 0..MaxMessages,
     evaluators : MultiEvaluatorLists] \cup {BadMulti}

\* The requests a batch is made of: single-agent and multi-agent requests,
\* a request with an unknown metric and one that lacks a required key.
BatchItems ==
    { [type |-> "single", invalid |-> "none", agent_id |-> "agent-1",
       ncases |-> 1, evaluators |-> <<"accuracy">>],
      [type |-> "single", invalid |-> "none", agent_id |-> "agent-1",
       ncases |-> 0, evaluators |-> <<"accuracy">>],
      [type |-> "multiagent", invalid |-> "none", workflow_id |-> "wf-1",
       workflow_type |-> "workflow", nmsgs |-> 1,
       evaluators |-> <<"conversation_quality">>],
      [type |-> "multiagent", invalid |-> "none", workflow_id |-> "wf-1",
       workflow_type |-> "agent2agent", nmsgs |-> 0, evaluators |-> <<"bias">>],
      BadSingle,
      [type |-> "single", invalid |-> "missing_key", agent_id |-> "agent-1",
       ncases |-> 1, evaluators |-> <<"accuracy">>] }

SeqsUpTo(S, n) == UNION { [1..k -> S] : k \in 0..n }

BatchInputs == SeqsUpTo(BatchItems, MaxItems)

\* ------------------------------------------------------------------- state
VARIABLES
    pc,                 \* position of the request being served
    call,               \* the tool the client called
    response,           \* what the tool returned or raised to the client
    evaluations,        \* batch_evaluate_agents: the argument
    bi,                 \* batch_evaluate_agents: index of the current item
    batchResults,       \* batch_evaluate_agents: results
    request,            \* the request being evaluated
    session_id,         \* server: session id of the current tool call
    active_sessions,    \* server global
    total_evaluations,  \* server global
    nextId,             \* source of uuid4 values
    results,            \* evaluate_agent: results
    tcIdx,              \* evaluate_agent: index of the current test case
    agentOutcome,       \* how the agent function ended on the current test case
    agent_response,     \* evaluate_agent: agent_response
    evaluation_id,      \* evaluate_single_case / workflow: evaluation_id
    input_data,         \* evaluate_single_case / workflow: input_data
    metricIdx,          \* index i of the metric loop
    scores,             \* scores of the metric loop
    result,             \* the EvaluationResult of the workflow evaluation
    evalLog,            \* what each evaluator.score call of the loop did
    judgeLog,           \* the judge calls made for the current evaluation
    sinkLog,            \* the calls of the result sink
    history,            \* the evaluate_single_case calls recorded for comparison
    inflight,           \* the tool calls served concurrently by the event loop
    response_text,      \* _parse_llm_response: the argument
    parse_result        \* _parse_llm_response: what it returned

vars == <<pc, call, response, evaluations, bi, batchResults, request, session_id,
          active_sessions, total_evaluations, nextId, results, tcIdx,
          agentOutcome, agent_response, evaluation_id, input_data, metricIdx,
          scores, result, evalLog, judgeLog, sinkLog, history,
          inflight, response_text, parse_result>>

batchVars == <<evaluations, bi, batchResults>>
serverVars == <<session_id, active_sessions, total_evaluations>>
agentVars == <<results, tcIdx, agentOutcome, agent_response>>
caseVars == <<evaluation_id, input_data, metricIdx, scores, evalLog, judgeLog>>
parserVars == <<response_text, parse_result>>

\* A tool call the client has not made yet.
NotCalled == [pc |-> "new", tool |-> None, session_id |-> NoId, nresults |-> 0]

\* _parse_llm_response has not returned yet.
NotParsed == [returned |-> FALSE]

ServerInit ==
    /\ pc = "idle"
    /\ call = None
    /\ response = [kind |-> None]
    /\ evaluations = <<>>
    /\ bi = 1
    /\ batchResults = <<>>
    /\ request = [type |-> None, invalid |-> None]
    /\ session_id = NoId
    /\ active_sessions = {}
    /\ total_evaluations = 0
    /\ nextId = 1
    /\ results = <<>>
    /\ tcIdx = 1
    /\ agentOutcome = None
    /\ agent_response = None
    /\ evaluation_id = NoId
    /\ input_data = [messages |-> <<>>, conversation |-> <<>>]
    /\ metricIdx = 1
    /\ scores = <<>>
    /\ result = [evaluation_id |-> NoId, scores |-> <<>>]
    /\ evalLog = <<>>
    /\ judgeLog = <<>>
    /\ sinkLog = <<>>
    /\ history = <<>>
    /\ inflight = [r \in 1..MaxRequests |-> NotCalled]

\* The server after start-up; the parser is not running on its own.
Init ==
    /\ ServerInit
    /\ response_text = <<>>
    /\ parse_result = NotParsed

\* ------------------------------------------------------------ tool results
\* The tool call returns `value`: to batch_evaluate_agents, which appends it
\* to its results and goes on, or to the client.
Return(value) ==
    IF call = "batch_evaluate_agents"
    THEN /\ batchResults' = Append(batchResults, value)
         /\ bi' = bi + 1
         /\ pc' = "batch_loop"
         /\ UNCHANGED <<response, evaluations>>
    ELSE /\ response' = [kind |-> "return", value |-> value]
         /\ pc' = "done"
         /\ UNCHANGED batchVars

\* Mutant of Raise: batch_evaluate_agents does not catch the exception.
RaiseAborts(error) ==
    /\ response' = [kind |-> "raise", error |-> error]
    /\ pc' = "done"
    /\ UNCHANGED batchVars

\* The tool call raises: batch_evaluate_agents catches the exception and
\* records {error, request}; a client sees the exception.
Raise(error) ==
    IF call = "batch_evaluate_agents"
    THEN /\ batchResults' =
                Append(batchResults, [error |-> error, request |-> evaluations[bi]])
         /\ bi' = bi + 1
         /\ pc' = "batch_loop"
         /\ UNCHANGED <<response, evaluations>>
    ELSE /\ response' = [kind |-> "raise", error |-> error]
         /\ pc' = "done"
         /\ UNCHANGED batchVars

OverallScores(rs) == [i \in 1..Len(rs) |-> rs[i].overall_score]

\* Mutant of AverageScore: the score of the first result.
AverageScoreOfFirst(rs) ==
    IF rs = <<>> THEN Rat(0, 1) ELSE rs[1].overall_score

\* sum(r.overall_score for r in results) / len(results) if results else 0.0
AverageScore(rs) ==
    IF rs = <<>> THEN Rat(0, 1) ELSE RatDiv(RatSum(OverallScores(rs)), Len(rs))

\* Mutant of AgentSummary: the two counts are swapped.
AgentSummarySwapped(sid, agent_id, rs) ==
    [session_id |-> sid, agent_id |-> agent_id,
     total_tests |-> Len(rs),
     passed_tests |-> Cardinality({i \in 1..Len(rs) : ~rs[i].passed}),
     failed_tests |-> Cardinality({i \in 1..Len(rs) : rs[i].passed}),
     average_score |-> AverageScore(rs),
     results |-> rs]

\* The dictionary the tool evaluate_agent returns.
AgentSummary(sid, agent_id, rs) ==
    [session_id |-> sid, agent_id |-> agent_id,
     total_tests |-> Len(rs),
     passed_tests |-> Cardinality({i \in 1..Len(rs) : rs[i].passed}),
     failed_tests |-> Cardinality({i \in 1..Len(rs) : ~rs[i].passed}),
     average_score |-> AverageScore(rs),
     results |-> rs]

\* The dictionary the tool evaluate_multiagent_workflow returns.
WorkflowSummary(sid, req, res) ==
    [session_id |-> sid, workflow_id |-> req.workflow_id,
     workflow_type |-> req.workflow_type, result |-> res]

\* ------------------------------------------------------------- the client
client_evaluate_agent ==
    /\ pc = "idle"
    /\ \E req \in SingleRequests : request' = req
    /\ call' = "evaluate_agent"
    /\ pc' = "ea_enter"
    /\ UNCHANGED <<response, batchVars, serverVars, nextId, agentVars, caseVars,
                   result, sinkLog>>
    /\ UNCHANGED parserVars
    /\ UNCHANGED history
    /\ UNCHANGED inflight

client_evaluate_multiagent_workflow ==
    /\ pc = "idle"
    /\ \E req \in MultiRequests : request' = req
    /\ call' = "evaluate_multiagent_workflow"
    /\ pc' = "mw_enter"
    /\ UNCHANGED <<response, batchVars, serverVars, nextId, agentVars, caseVars,
                   result, sinkLog>>
    /\ UNCHANGED parserVars
    /\ UNCHANGED history
    /\ UNCHANGED inflight

client_batch_evaluate_agents ==
    /\ pc = "idle"
    /\ \E evs \in BatchInputs : evaluations' = evs
    /\ call' = "batch_evaluate_agents"
    /\ bi' = 1
    /\ batchResults' = <<>>
    /\ pc' = "batch_loop"
    /\ UNCHANGED <<response, request, serverVars, nextId, agentVars, caseVars,
                   result, sinkLog>>
    /\ UNCHANGED parserVars
    /\ UNCHANGED history
    /\ UNCHANGED inflight

\* ------------------------------------------------- server: evaluate_agent
\* Mutant of evaluate_agent_enter: no finally block, the session of a
\* rejected request stays registered.
evaluate_agent_enter_no_finally ==
    /\ pc = "ea_enter"
    /\ nextId' = nextId + 1
    /\ LET sid == Uuid("session", nextId) IN
        /\ active_sessions' = active_sessions \cup {sid}
        /\ IF request.invalid # "none"
           THEN /\ Raise("ValueError")
                /\ UNCHANGED <<session_id, results, tcIdx>>
           ELSE /\ session_id' = sid
                /\ results' = <<>>
                /\ tcIdx' = 1
                /\ pc' = "ea_loop"
                /\ UNCHANGED <<response, batchVars>>
    /\ UNCHANGED <<call, request, total_evaluations, agentOutcome, agent_response,
                   caseVars, result, sinkLog>>
    /\ UNCHANGED parserVars
    /\ UNCHANGED history
    /\ UNCHANGED inflight

\* The tool evaluate_agent up to the first await: the session is registered,
\* the arguments are converted to models (an unknown metric raises and the
\* finally block discards the session), and evaluate_agent starts its loop.
evaluate_agent_enter ==
    /\ pc = "ea_enter"
    /\ nextId' = nextId + 1
    /\ LET sid == Uuid("session", nextId) IN
        IF request.invalid # "none"
        THEN /\ active_sessions' = (active_sessions \cup {sid}) \ {sid}
             /\ Raise("ValueError")
             /\ UNCHANGED <<session_id, results, tcIdx>>
        ELSE /\ active_sessions' = active_sessions \cup {sid}
             /\ session_id' = sid
             /\ results' = <<>>
             /\ tcIdx' = 1
             /\ pc' = "ea_loop"
             /\ UNCHANGED <<response, batchVars>>
    /\ UNCHANGED <<call, request, total_evaluations, agentOutcome, agent_response,
                   caseVars, result, sinkLog>>
    /\ UNCHANGED parserVars
    /\ UNCHANGED history
    /\ UNCHANGED inflight

\* AgentEvaluator.evaluate_agent: the next test case; _execute_agent_safely
\* awaits the agent function under the timeout.
execute_agent_call ==
    /\ pc = "ea_loop"
    /\ tcIdx <= request.ncases
    /\ pc' = "agent_wait"
    /\ UNCHANGED <<call, response, batchVars, request, serverVars, nextId,
                   agentVars, caseVars, result, sinkLog>>
    /\ UNCHANGED parserVars
    /\ UNCHANGED history
    /\ UNCHANGED inflight

\* The agent function returns, raises or runs into the timeout.
agent_completes ==
    /\ pc = "agent_wait"
    /\ \E outcome \in AgentOutcomes :
        /\ agentOutcome' = outcome
        /\ agent_response' = execute_agent_safely(outcome)
    /\ pc' = "esc_enter"
    /\ UNCHANGED <<call, response, batchVars, request, serverVars, nextId,
                   results, tcIdx, caseVars, result, sinkLog>>
    /\ UNCHANGED parserVars
    /\ UNCHANGED history
    /\ UNCHANGED inflight

\* Mutant of FailedResult: the failed result does not name the agent.
FailedResultNoAgent(id, req, test_case_id, sid) ==
    EvaluationResult(id, None, None, test_case_id, <<>>, Rat(0, 1),
                     FALSE, NoId, sid, "error")

\* Mutant of FailedResult: the error is not recorded and the score is
\* neutral.
FailedResultNeutral(id, req, test_case_id, sid) ==
    EvaluationResult(id, req.agent_id, None, test_case_id, <<>>, Rat(50, 1),
                     FALSE, NoId, sid, "none")

\* The failed result of the except block of evaluate_agent.
FailedResult(id, req, test_case_id, sid) ==
    EvaluationResult(id, req.agent_id, None, test_case_id, <<>>, Rat(0, 1),
                     FALSE, NoId, sid, "error")

\* OpikEvaluator.evaluate_single_case up to the metric loop.  When resolving
\* the evaluators raises, evaluate_agent appends a failed result and goes on
\* with the next test case.
evaluate_single_case_enter ==
    /\ pc = "esc_enter"
    /\ \E resolve \in ResolveOutcomes(request.evaluators) :
        IF resolve = "raises"
        THEN /\ results' = Append(results,
                    FailedResult(Uuid("eval", nextId + 1), request, tcIdx, session_id))
             /\ nextId' = nextId + 2
             /\ tcIdx' = tcIdx + 1
             /\ pc' = "ea_loop"
             /\ evaluation_id' = Uuid("eval", nextId)
             /\ UNCHANGED <<input_data, metricIdx, scores, evalLog, judgeLog>>
        ELSE /\ evaluation_id' = Uuid("eval", nextId)
             /\ nextId' = nextId + 1
             /\ input_data' = [messages |-> <<>>, conversation |-> <<>>]
             /\ metricIdx' = 1
             /\ scores' = <<>>
             /\ evalLog' = <<>>
             /\ judgeLog' = <<>>
             /\ pc' = "metric_loop"
             /\ UNCHANGED <<results, tcIdx>>
    /\ UNCHANGED <<call, response, batchVars, request, serverVars, agentOutcome,
                   agent_response, result, sinkLog>>
    /\ UNCHANGED parserVars
    /\ UNCHANGED history
    /\ UNCHANGED inflight

\* --------------------------------------------------------- the metric loop
\* The loop `for i, metric in enumerate(metrics)` of evaluate_single_case and
\* of evaluate_multiagent_workflow.
Metric == request.evaluators[metricIdx]
\* Mutant of Evaluator: the evaluators are taken from the end of the list.
EvaluatorFromEnd ==
    get_metric_evaluators(request.evaluators)[Len(request.evaluators) + 1 - metricIdx]

Evaluator == get_metric_evaluators(request.evaluators)[metricIdx]

\* What the prompt of an evaluator shows the judge: the agent's output for
\* the response metrics, the messages for the conversation metrics.
Prompt(evaluator, input, output) ==
    IF evaluator \in {"conversation_quality", "agent_coordination",
                      "workflow_efficiency"}
    THEN [evaluator |-> evaluator, shown |-> input.conversation]
    ELSE [evaluator |-> evaluator, shown |-> output]

\* output_data.get("output", ""): the workflow evaluation has no "output".
Output == IF request.type = "single" THEN agent_response ELSE ""

\* evaluator.score up to its judge call: an early return appends the score,
\* otherwise the judge is called and awaited.
score_metric ==
    /\ pc = "metric_loop"
    /\ metricIdx <= Len(request.evaluators)
    /\ LET sc == ShortCircuit(Evaluator, input_data) IN
        IF sc.hit
        THEN /\ scores' = Append(scores, EvaluationScore(Metric, sc.score, sc.explanation))
             /\ evalLog' = Append(evalLog,
                    [metric |-> Metric, raised |-> FALSE, judged |-> FALSE,
                     failed |-> FALSE, answer |-> <<>>, value |-> sc.score])
             /\ metricIdx' = metricIdx + 1
             /\ UNCHANGED <<pc, judgeLog>>
        ELSE /\ judgeLog' = Append(judgeLog, Prompt(Evaluator, input_data, Output))
             /\ pc' = "judge_wait"
             /\ UNCHANGED <<scores, evalLog, metricIdx>>
    /\ UNCHANGED <<call, response, batchVars, request, serverVars, nextId,
                   agentVars, evaluation_id, input_data, result, sinkLog>>
    /\ UNCHANGED parserVars
    /\ UNCHANGED history
    /\ UNCHANGED inflight

\* The judge call ends: _call_claude returns the text or the sentinel,
\* _parse_llm_response parses it and the score is appended.
judge_completes ==
    /\ pc = "judge_wait"
    /\ \E outcome \in JudgeOutcomes :
        LET parsed == parse_llm_response(call_claude(outcome)) IN
        /\ scores' = Append(scores,
                EvaluationScore(Metric, parsed.score, parsed.explanation))
        /\ evalLog' = Append(evalLog,
                [metric |-> Metric, raised |-> FALSE, judged |-> TRUE,
                 failed |-> outcome.raised,
                 answer |-> call_claude(outcome), value |-> parsed.score])
    /\ metricIdx' = metricIdx + 1
    /\ pc' = "metric_loop"
    /\ UNCHANGED <<call, response, batchVars, request, serverVars, nextId,
                   agentVars, evaluation_id, input_data, judgeLog, result, sinkLog>>
    /\ UNCHANGED parserVars
    /\ UNCHANGED history
    /\ UNCHANGED inflight

\* evaluator.score raises, before or after its judge call: the except block
\* appends the fallback score.
metric_raises ==
    /\ pc \in {"metric_loop", "judge_wait"}
    /\ metricIdx <= Len(request.evaluators)
    /\ scores' = Append(scores, FallbackScore(Metric))
    /\ evalLog' = Append(evalLog,
            [metric |-> Metric, raised |-> TRUE, judged |-> pc = "judge_wait",
             failed |-> FALSE, answer |-> <<>>, value |-> 0])
    /\ metricIdx' = metricIdx + 1
    /\ pc' = "metric_loop"
    /\ UNCHANGED <<call, response, batchVars, request, serverVars, nextId,
                   agentVars, evaluation_id, input_data, judgeLog, result, sinkLog>>
    /\ UNCHANGED parserVars
    /\ UNCHANGED history
    /\ UNCHANGED inflight

SinkOutcomes == {"ok", "no_id", "raises"}

\* Mutant of SinkRecord: the sink is given the list with a further score.
SinkRecordExtended(id, recorded, sink) ==
    [evaluation_id |-> id,
     scores |-> Append(recorded, EvaluationScore("agent_coordination", 0, <<>>)),
     outcome |-> sink]

\* What the call of the result sink is given: self.client.trace(...) with
\* the scores of the metric loop.
SinkRecord(id, recorded, sink) ==
    [evaluation_id |-> id, scores |-> recorded, outcome |-> sink]

\* Mutant of SingleCaseResult: an evaluation whose sink raised does not pass.
SingleCaseResultSinkGated(id, req, test_case_id, sid, recorded, sink) ==
    EvaluationResult(id, req.agent_id, None, test_case_id, recorded,
                     OverallScore(recorded),
                     Passed(OverallScore(recorded)) /\ sink # "raises",
                     log_trace_to_opik(id, sink), sid, "none")

\* The result evaluate_single_case returns, with the agent_id evaluate_agent
\* sets on it.
SingleCaseResult(id, req, test_case_id, sid, recorded, sink) ==
    EvaluationResult(id, req.agent_id, None, test_case_id, recorded,
                     OverallScore(recorded), Passed(OverallScore(recorded)),
                     log_trace_to_opik(id, sink), sid, "none")

\* A call of evaluate_single_case that has returned: its arguments, what the
\* evaluators did during it, and what it returned.
SingleCaseCall(metrics, output, log, returned) ==
    [metrics |-> metrics, agent_response |-> output, log |-> log,
     evaluation_id |-> returned.evaluation_id,
     opik_trace_id |-> returned.opik_trace_id,
     scores |-> returned.scores, overall_score |-> returned.overall_score,
     passed |-> returned.passed]

\* The end of evaluate_single_case: overall score, trace, result; and
\* evaluate_agent appends the result.
single_case_return ==
    /\ pc = "metric_loop"
    /\ request.type = "single"
    /\ metricIdx > Len(request.evaluators)
    /\ \E sink \in SinkOutcomes :
        /\ sinkLog' = Append(sinkLog, SinkRecord(evaluation_id, scores, sink))
        /\ results' = Append(results,
                SingleCaseResult(evaluation_id, request, tcIdx, session_id, scores, sink))
    /\ tcIdx' = tcIdx + 1
    /\ pc' = "ea_loop"
    /\ UNCHANGED <<call, response, batchVars, request, serverVars, nextId,
                   agentOutcome, agent_response, caseVars, result>>
    /\ UNCHANGED parserVars
    /\ UNCHANGED history
    /\ UNCHANGED inflight

\* single_case_return, with the call recorded in `history`.
single_case_return_recorded ==
    /\ pc = "metric_loop"
    /\ request.type = "single"
    /\ metricIdx > Len(request.evaluators)
    /\ \E sink \in SinkOutcomes :
        /\ sinkLog' = Append(sinkLog, SinkRecord(evaluation_id, scores, sink))
        /\ results' = Append(results,
                SingleCaseResult(evaluation_id, request, tcIdx, session_id, scores, sink))
        /\ history' = Append(history,
                SingleCaseCall(request.evaluators, agent_response, evalLog,
                    SingleCaseResult(evaluation_id, request, tcIdx, session_id, scores, sink)))
    /\ tcIdx' = tcIdx + 1
    /\ pc' = "ea_loop"
    /\ UNCHANGED <<call, response, batchVars, request, serverVars, nextId,
                   agentOutcome, agent_response, caseVars, result>>
    /\ UNCHANGED parserVars
    /\ UNCHANGED inflight

\* The tool evaluate_agent after evaluate_agent has returned: the counter,
\* the summary, and the finally block.
evaluate_agent_return ==
    /\ pc = "ea_loop"
    /\ tcIdx > request.ncases
    /\ total_evaluations' = total_evaluations + Len(results)
    /\ active_sessions' = active_sessions \ {session_id}
    /\ Return(AgentSummary(session_id, request.agent_id, results))
    /\ UNCHANGED <<call, request, session_id, nextId, agentVars, caseVars,
                   result, sinkLog>>
    /\ UNCHANGED parserVars
    /\ UNCHANGED history
    /\ UNCHANGED inflight

\* ------------------------------------- server: evaluate_multiagent_workflow
\* The tool evaluate_multiagent_workflow up to the first await: session,
\* conversion to models, and evaluate_multiagent_workflow up to its metric
\* loop.  An exception leaves through the finally block.
evaluate_multiagent_enter ==
    /\ pc = "mw_enter"
    /\ LET sid == Uuid("session", nextId) IN
        \E resolve \in ResolveOutcomes(request.evaluators) :
            IF request.invalid # "none" \/ resolve = "raises"
            THEN /\ active_sessions' = (active_sessions \cup {sid}) \ {sid}
                 /\ Raise(IF request.invalid # "none" THEN "ValueError" ELSE "Exception")
                 /\ nextId' = nextId + 1
                 /\ UNCHANGED <<session_id, caseVars>>
            ELSE /\ active_sessions' = active_sessions \cup {sid}
                 /\ session_id' = sid
                 /\ evaluation_id' = Uuid("eval", nextId + 1)
                 /\ nextId' = nextId + 2
                 /\ input_data' =
                        [messages |-> Messages(request.nmsgs),
                         conversation |-> format_conversation(Messages(request.nmsgs))]
                 /\ metricIdx' = 1
                 /\ scores' = <<>>
                 /\ evalLog' = <<>>
                 /\ judgeLog' = <<>>
                 /\ pc' = "metric_loop"
                 /\ UNCHANGED <<response, batchVars>>
    /\ UNCHANGED <<call, request, total_evaluations, agentVars, result, sinkLog>>
    /\ UNCHANGED parserVars
    /\ UNCHANGED history
    /\ UNCHANGED inflight

\* The result evaluate_multiagent_workflow returns.
WorkflowResult(id, req, recorded, sink) ==
    EvaluationResult(id, None, req.workflow_id, 0, recorded,
                     OverallScore(recorded), Passed(OverallScore(recorded)),
                     log_trace_to_opik(id, sink), NoId, "workflow")

\* The end of evaluate_multiagent_workflow: overall score, trace, result.
workflow_return ==
    /\ pc = "metric_loop"
    /\ request.type = "multiagent"
    /\ metricIdx > Len(request.evaluators)
    /\ \E sink \in SinkOutcomes :
        /\ sinkLog' = Append(sinkLog, SinkRecord(evaluation_id, scores, sink))
        /\ result' = WorkflowResult(evaluation_id, request, scores, sink)
    /\ pc' = IF request.workflow_type = "agent2agent" THEN "a2a" ELSE "mw_return"
    /\ UNCHANGED <<call, response, batchVars, request, serverVars, nextId,
                   agentVars, caseVars>>
    /\ UNCHANGED parserVars
    /\ UNCHANGED history
    /\ UNCHANGED inflight

\* Mutant of AppendA2AScore: overall_score and passed are left as they were.
AppendA2AScoreStale(res, score_value, explanation) ==
    [res EXCEPT !.scores = Append(res.scores,
                    EvaluationScore("agent_coordination", score_value, explanation))]

\* evaluate_agent2agent_flow: the score is appended and overall_score and
\* passed are computed again.
AppendA2AScore(res, score_value, explanation) ==
    LET extended == Append(res.scores,
                        EvaluationScore("agent_coordination", score_value, explanation))
    IN  [res EXCEPT !.scores = extended,
                    !.overall_score = OverallScore(extended),
                    !.passed = Passed(OverallScore(extended))]

\* _evaluate_a2a_protocol_compliance_llm up to its judge call: 0.0 for an
\* empty conversation; otherwise a new LLMEvaluator is constructed, which
\* can raise, and the judge is called.
a2a_protocol_compliance ==
    /\ pc = "a2a"
    /\ IF request.nmsgs = 0
       THEN /\ result' = AppendA2AScore(result, 0, <<"No messages in conversation">>)
            /\ pc' = "mw_return"
            /\ UNCHANGED <<response, batchVars, active_sessions, judgeLog>>
       ELSE \E construct \in {"ok", "raises"} :
            IF construct = "raises"
            THEN /\ active_sessions' = active_sessions \ {session_id}
                 /\ Raise("Exception")
                 /\ UNCHANGED <<result, judgeLog>>
            ELSE /\ judgeLog' = Append(judgeLog,
                        [evaluator |-> "a2a_protocol", shown |-> input_data.conversation])
                 /\ pc' = "a2a_wait"
                 /\ UNCHANGED <<response, batchVars, active_sessions, result>>
    /\ UNCHANGED <<call, request, session_id, total_evaluations, nextId, agentVars,
                   evaluation_id, input_data, metricIdx, scores, evalLog, sinkLog>>
    /\ UNCHANGED parserVars
    /\ UNCHANGED history
    /\ UNCHANGED inflight

\* The judge call of the protocol-compliance score ends.
a2a_judge_completes ==
    /\ pc = "a2a_wait"
    /\ \E outcome \in JudgeOutcomes :
        LET parsed == parse_llm_response(call_claude(outcome)) IN
        result' = AppendA2AScore(result, parsed.score, parsed.explanation)
    /\ pc' = "mw_return"
    /\ UNCHANGED <<call, response, batchVars, request, serverVars, nextId,
                   agentVars, caseVars, sinkLog>>
    /\ UNCHANGED parserVars
    /\ UNCHANGED history
    /\ UNCHANGED inflight

\* The tool evaluate_multiagent_workflow after the evaluation: the counter,
\* the returned dictionary, and the finally block.
evaluate_multiagent_return ==
    /\ pc = "mw_return"
    /\ total_evaluations' = total_evaluations + 1
    /\ active_sessions' = active_sessions \ {session_id}
    /\ Return(WorkflowSummary(session_id, request, result))
    /\ UNCHANGED <<call, request, session_id, nextId, agentVars, caseVars,
                   result, sinkLog>>
    /\ UNCHANGED parserVars
    /\ UNCHANGED history
    /\ UNCHANGED inflight

\* ------------------------------------------ server: batch_evaluate_agents
\* r.get(key, default)
Get(r, key, default) == IF key \in DOMAIN r THEN r[key] ELSE default

IsSuccessful(r) == "error" \notin DOMAIN r
HasAverage(r) == "average_score" \in DOMAIN r

\* [r for r in results if "error" not in r]
SuccessfulResults(rs) == SelectSeq(rs, IsSuccessful)

\* The scores the overall average is taken over.
AverageScores(rs) ==
    LET with == SelectSeq(SuccessfulResults(rs), HasAverage)
    IN  [i \in 1..Len(with) |-> with[i].average_score]

\* sum(average_scores) / len(average_scores) if average_scores else 0.0
OverallAverage(rs) ==
    IF AverageScores(rs) = <<>> THEN Rat(0, 1)
    ELSE RatDiv(RatSum(AverageScores(rs)), Len(AverageScores(rs)))

SumOf(rs, key) == SumSeq([i \in 1..Len(rs) |-> Get(rs[i], key, 0)])

\* The dictionary batch_evaluate_agents returns.
BatchSummary(evs, rs) ==
    [total_evaluations |-> Len(evs),
     successful_evaluations |-> Len(SuccessfulResults(rs)),
     failed_evaluations |-> Len(rs) - Len(SuccessfulResults(rs)),
     total_tests |-> SumOf(SuccessfulResults(rs), "total_tests"),
     passed_tests |-> SumOf(SuccessfulResults(rs), "passed_tests"),
     failed_tests |-> SumOf(SuccessfulResults(rs), "failed_tests"),
     overall_average_score |-> OverallAverage(rs),
     results |-> rs]

\* The loop body of batch_evaluate_agents up to the tool call: a request
\* that lacks a key raises KeyError, which is recorded; otherwise the tool
\* for the request's type is called.
batch_dispatch ==
    /\ pc = "batch_loop"
    /\ bi <= Len(evaluations)
    /\ LET item == evaluations[bi] IN
        IF item.invalid = "missing_key"
        THEN /\ Raise("KeyError")
             /\ UNCHANGED request
        ELSE /\ request' = item
             /\ pc' = IF item.type = "multiagent" THEN "mw_enter" ELSE "ea_enter"
             /\ UNCHANGED <<response, batchVars>>
    /\ UNCHANGED <<call, serverVars, nextId, agentVars, caseVars, result, sinkLog>>
    /\ UNCHANGED parserVars
    /\ UNCHANGED history
    /\ UNCHANGED inflight

\* batch_evaluate_agents after its loop: the summary.
batch_return ==
    /\ pc = "batch_loop"
    /\ bi > Len(evaluations)
    /\ response' = [kind |-> "return", value |-> BatchSummary(evaluations, batchResults)]
    /\ pc' = "done"
    /\ UNCHANGED <<call, batchVars, request, serverVars, nextId, agentVars,
                   caseVars, result, sinkLog>>
    /\ UNCHANGED parserVars
    /\ UNCHANGED history
    /\ UNCHANGED inflight

\* ------------------------------------------------------------ specification
Next ==
    \/ client_evaluate_agent
    \/ client_evaluate_multiagent_workflow
    \/ client_batch_evaluate_agents
    \/ evaluate_agent_enter
    \/ execute_agent_call
    \/ agent_completes
    \/ evaluate_single_case_enter
    \/ score_metric
    \/ judge_completes
    \/ metric_raises
    \/ single_case_return
    \/ evaluate_agent_return
    \/ evaluate_multiagent_enter
    \/ workflow_return
    \/ a2a_protocol_compliance
    \/ a2a_judge_completes
    \/ evaluate_multiagent_return
    \/ batch_dispatch
    \/ batch_return

Spec == Init /\ [][Next]_vars

\* ------------------------------------------------ the parser on its own
\* The lines a judge response is made of here: SCORE lines with a number in
\* range, above 1, below 0, not a number, no number at all, nan, and with
\* text after the number; EXPLANATION lines; and a line of another kind.
ParserLines ==
    { Line("SCORE", w) : w \in { <<"0.83">>, <<"1.4">>, <<"-0.3">>, <<"high">>,
                                 <<"nan">>, <<>>, <<"0.2", "approx">> } }
    \cup { Line("Score", <<"0.83">>) }
    \cup { Line("EXPLANATION", w) : w \in { <<"looks", "good">>, <<"fine">>, <<>> } }
    \cup { Line("explanation", <<"looks", "good">>) }
    \cup { Line("Note", <<"SCORE", "0.2">>) }

\* The response texts handed to the parser.
ResponseTexts == SeqsUpTo(ParserLines, MaxLines)

\* _parse_llm_response is about to be called on some response text.
ParserInit ==
    /\ ServerInit
    /\ response_text \in ResponseTexts
    /\ parse_result = NotParsed

\* _parse_llm_response runs and returns its pair.
parse_response ==
    /\ ~parse_result.returned
    /\ LET pair == parse_llm_response(response_text) IN
        parse_result' = [returned |-> TRUE, score |-> pair.score,
                         explanation |-> pair.explanation]
    /\ UNCHANGED <<pc, call, response, batchVars, request, serverVars, nextId,
                   agentVars, caseVars, result, sinkLog, response_text>>
    /\ UNCHANGED history
    /\ UNCHANGED inflight

ParserNext == parse_response

ParserSpec == ParserInit /\ [][ParserNext]_vars

\* ------------------------------------- two calls of evaluate_single_case
\* The client calls evaluate_agent with two test cases, so that
\* evaluate_single_case is called twice with the same metric list, and the
\* calls are recorded.
client_evaluate_two_cases ==
    /\ pc = "idle"
    /\ \E req \in {r \in SingleRequests : r.invalid = "none" /\ r.ncases = 2} :
        request' = req
    /\ call' = "evaluate_agent"
    /\ pc' = "ea_enter"
    /\ UNCHANGED <<response, batchVars, serverVars, nextId, agentVars, caseVars,
                   result, sinkLog, history, parserVars>>
    /\ UNCHANGED inflight

TwoCallsNext ==
    \/ client_evaluate_two_cases
    \/ evaluate_agent_enter
    \/ execute_agent_call
    \/ agent_completes
    \/ evaluate_single_case_enter
    \/ score_metric
    \/ judge_completes
    \/ metric_raises
    \/ single_case_return_recorded
    \/ evaluate_agent_return

TwoCallsSpec == Init /\ [][TwoCallsNext]_vars

\* ------------------------------------------- termination of evaluate_agent
\* The tool evaluate_agent alone, with the scheduling the code relies on,
\* called with two test cases and one metric.
client_evaluate_agent_once ==
    /\ pc = "idle"
    /\ \E req \in {r \in SingleRequests : r.invalid = "none" /\ r.ncases = 2
                                          /\ Len(r.evaluators) = 1} :
        request' = req
    /\ call' = "evaluate_agent"
    /\ pc' = "ea_enter"
    /\ UNCHANGED <<response, batchVars, serverVars, nextId, agentVars, caseVars,
                   result, sinkLog, history, parserVars>>
    /\ UNCHANGED inflight

EvaluateAgentNext ==
    \/ client_evaluate_agent_once
    \/ evaluate_agent_enter
    \/ execute_agent_call
    \/ agent_completes
    \/ evaluate_single_case_enter
    \/ score_metric
    \/ judge_completes
    \/ metric_raises
    \/ single_case_return
    \/ evaluate_agent_return

\* The event loop resumes a coroutine that is ready to run; the call of the
\* result sink is synchronous and returns inside single_case_return.
CoroutineRuns ==
    WF_vars(\/ evaluate_agent_enter
            \/ execute_agent_call
            \/ evaluate_single_case_enter
            \/ score_metric
            \/ single_case_return
            \/ evaluate_agent_return)

\* Mutant of AgentBounded: the agent function is awaited without a timeout.
AgentUnbounded == WF_vars(execute_agent_call)

\* asyncio.wait_for(agent_function(...), timeout=settings.evaluation_timeout):
\* the wait for the agent ends, by its return, its exception or the timeout.
AgentBounded == WF_vars(agent_completes)

\* Every judge invocation returns (evaluator.score returns or raises).
JudgeReturns == WF_vars(judge_completes \/ metric_raises)

TerminationSpec ==
    Init /\ [][EvaluateAgentNext]_vars /\ CoroutineRuns /\ AgentBounded /\ JudgeReturns

\* ------------------------------------------- concurrent tool calls
\* The tools are coroutines on one event loop: the code between two awaits
\* runs without interruption, and the calls interleave at the awaits.  A
\* tool call is kept as its position, its tool, its session id and the
\* number of results its evaluation returns.

\* active_sessions.add(session_id)
AddSession(sessions, sid) == sessions \cup {sid}

\* Mutant of DiscardSession: the set is cleared.
DiscardAllSessions(sessions, sid) == {}

\* active_sessions.discard(session_id)
DiscardSession(sessions, sid) == sessions \ {sid}

\* Mutant of CountResults: the total is overwritten.
CountResultsOverwrite(total, n) == n

\* total_evaluations += len(results); total_evaluations += 1
CountResults(total, n) == total + n

\* The tool calls a client can make: evaluate_agent with some test cases,
\* evaluate_multiagent_workflow, each with valid or invalid arguments.
ToolCalls ==
    [tool : {"evaluate_agent"}, valid : BOOLEAN, nresults : 0..MaxCases]
    \cup [tool : {"evaluate_multiagent_workflow"}, valid : BOOLEAN, nresults : {1}]

\* A tool is called and runs to its first await: the session is registered;
\* arguments that do not convert raise, and the finally block discards the
\* session.
tool_enters(r) ==
    /\ inflight[r].pc = "new"
    /\ nextId' = nextId + 1
    /\ \E c \in ToolCalls :
        LET sid == Uuid("session", nextId) IN
        IF c.valid
        THEN /\ active_sessions' = AddSession(active_sessions, sid)
             /\ inflight' = [inflight EXCEPT ![r] =
                    [pc |-> "evaluating", tool |-> c.tool, session_id |-> sid,
                     nresults |-> c.nresults]]
        ELSE /\ active_sessions' = DiscardSession(AddSession(active_sessions, sid), sid)
             /\ inflight' = [inflight EXCEPT ![r] =
                    [pc |-> "raised", tool |-> c.tool, session_id |-> sid,
                     nresults |-> 0]]
    /\ UNCHANGED <<pc, call, response, batchVars, request, session_id,
                   total_evaluations, agentVars, caseVars, result, sinkLog,
                   history, parserVars>>

\* The awaited evaluation returns its results; the tool goes on to await
\* log_evaluation_result for each of them (which catches its own errors).
tool_evaluated(r) ==
    /\ inflight[r].pc = "evaluating"
    /\ inflight' = [inflight EXCEPT ![r].pc = "logging"]
    /\ UNCHANGED <<pc, call, response, batchVars, request, session_id,
                   active_sessions, total_evaluations, nextId, agentVars,
                   caseVars, result, sinkLog, history, parserVars>>

\* The results are logged: the tool counts them, returns its dictionary, and
\* the finally block discards the session, without an await in between.
tool_returns(r) ==
    /\ inflight[r].pc = "logging"
    /\ total_evaluations' = CountResults(total_evaluations, inflight[r].nresults)
    /\ active_sessions' = DiscardSession(active_sessions, inflight[r].session_id)
    /\ inflight' = [inflight EXCEPT ![r].pc = "returned"]
    /\ UNCHANGED <<pc, call, response, batchVars, request, session_id, nextId,
                   agentVars, caseVars, result, sinkLog, history, parserVars>>

\* The awaited workflow evaluation raises (an evaluator cannot be
\* constructed): the finally block discards the session.
tool_raises(r) ==
    /\ inflight[r].pc = "evaluating"
    /\ inflight[r].tool = "evaluate_multiagent_workflow"
    /\ active_sessions' = DiscardSession(active_sessions, inflight[r].session_id)
    /\ inflight' = [inflight EXCEPT ![r].pc = "raised"]
    /\ UNCHANGED <<pc, call, response, batchVars, request, session_id,
                   total_evaluations, nextId, agentVars, caseVars, result, sinkLog,
                   history, parserVars>>

ConcurrentNext ==
    \/ \E r \in 1..MaxRequests : tool_enters(r)
    \/ \E r \in 1..MaxRequests : tool_evaluated(r)
    \/ \E r \in 1..MaxRequests : tool_returns(r)
    \/ \E r \in 1..MaxRequests : tool_raises(r)

ConcurrentSpec == Init /\ [][ConcurrentNext]_vars

\* ------------------------------------------------------------------ claims
SeqSet(q) == {q[i] : i \in 1..Len(q)}

\* The results a tool's returned dictionary holds.
ResultsOf(summary) ==
    IF "results" \in DOMAIN summary THEN SeqSet(summary.results)
    ELSE IF "result" \in DOMAIN summary THEN {summary.result}
    ELSE {}

\* Every EvaluationResult an evaluator has produced so far: the list of
\* evaluate_agent, the result of the workflow evaluation, and the results
\* inside the dictionaries returned to the batch and to the client.
Produced ==
    SeqSet(results)
    \cup (IF "overall_score" \in DOMAIN result THEN {result} ELSE {})
    \cup (UNION {ResultsOf(batchResults[i]) : i \in 1..Len(batchResults)})
    \cup (IF response.kind = "return" /\ call # "batch_evaluate_agents"
          THEN ResultsOf(response.value) ELSE {})

\* evaluate_agent is running, or the tool is about to return its list.
InEvaluateAgent ==
    pc \in {"ea_loop", "agent_wait", "esc_enter"}
    \/ (pc \in {"metric_loop", "judge_wait"} /\ request.type = "single")

\* C1: evaluate_agent returns exactly one EvaluationResult per test case, in
\* input order, the i-th with the i-th test case's id and the request's
\* agent_id, whatever the agent function does and also when the per-case
\* orchestration fails: while the loop runs the list holds the results of the
\* test cases before the current one, and the list returned has one result
\* per test case.
C1_OneResultPerTestCase ==
    /\ InEvaluateAgent =>
        /\ Len(results) = tcIdx - 1
        /\ tcIdx <= request.ncases + 1
        /\ \A i \in 1..Len(results) :
            /\ results[i].test_case_id = i
            /\ results[i].agent_id = request.agent_id
    /\ (pc = "done" /\ call = "evaluate_agent" /\ response.kind = "return") =>
        /\ Len(response.value.results) = request.ncases
        /\ \A i \in 1..request.ncases :
            /\ response.value.results[i].test_case_id = i
            /\ response.value.results[i].agent_id = request.agent_id

\* C1 witness: a returned list of two results, the first from a test case
\* whose orchestration failed, the second scored after the agent timed out.
C1_Witness ==
    /\ pc = "done" /\ call = "evaluate_agent" /\ response.kind = "return"
    /\ request.ncases = 2
    /\ response.value.results[1].metadata = "error"
    /\ response.value.results[2].metadata = "none"
    /\ agentOutcome = "timeout"

\* C2: every EvaluationResult produced has overall_score equal to the mean
\* of its scores (0.0 for no scores), within [0, 1], and passed exactly when
\* overall_score >= 0.7.
C2_OverallIsMean ==
    \A r \in Produced :
        /\ r.overall_score.d > 0
        /\ r.overall_score.n * Len(r.scores)
                = SumSeq(ScoreValues(r.scores)) * r.overall_score.d
        /\ (r.scores = <<>> => r.overall_score.n = 0)
        /\ r.overall_score.n >= 0
        /\ r.overall_score.n <= 100 * r.overall_score.d
        /\ r.passed <=> (10 * r.overall_score.n >= 7 * 100 * r.overall_score.d)

\* C2 witness: an agent2agent result whose three scores 1.0, 0.7 and 0.5
\* average 2.2/3 and which passed.
C2_Witness ==
    \E r \in Produced :
        /\ Len(r.scores) = 3
        /\ r.overall_score = [n |-> 220, d |-> 3]
        /\ r.passed

\* C3 as claimed: overall_score is 0.0 exactly when the scores list is empty.
C3_ZeroIffEmpty ==
    \A r \in Produced : (r.overall_score.n = 0) <=> (r.scores = <<>>)

\* C3 as amended: overall_score is 0.0 exactly when every score of the list
\* is 0.0, which includes the empty list.
C3_ZeroIffAllZero ==
    \A r \in Produced :
        (r.overall_score.n = 0) <=> (\A i \in 1..Len(r.scores) : r.scores[i].score = 0)

\* C3 witness: a result with a non-empty scores list and overall_score 0.0.
C3_Witness ==
    \E r \in Produced : r.scores # <<>> /\ r.overall_score.n = 0

\* The result of the evaluation `evaluation_id` is the last one of the list
\* of evaluate_agent: evaluate_single_case has returned for the current test
\* case and the next evaluation has not begun.
SingleCaseDone ==
    /\ request.type = "single"
    /\ pc \in {"ea_loop", "agent_wait", "esc_enter"}
            \/ (pc = "done" /\ call = "evaluate_agent")
    /\ Len(results) > 0
    /\ results[Len(results)].evaluation_id = evaluation_id

LastResult == results[Len(results)]

\* evaluate_multiagent_workflow has returned its result and the agent2agent
\* flow has not yet extended it.
WorkflowDone ==
    /\ request.type = "multiagent"
    /\ pc \in {"a2a", "a2a_wait"}
            \/ (pc = "mw_return" /\ request.workflow_type # "agent2agent")

\* The scores `sc` are those of the first Len(sc) requested metrics, in
\* order: a metric whose evaluator raised has score 0.0 and passed = false,
\* every other one has the score its evaluator returned.
IsolatedScores(sc) ==
    /\ Len(evalLog) = Len(sc)
    /\ \A i \in 1..Len(sc) :
        /\ sc[i].metric = request.evaluators[i]
        /\ evalLog[i].raised => (sc[i].score = 0 /\ ~sc[i].passed)
        /\ ~evalLog[i].raised => sc[i].score = evalLog[i].value

\* C4: in evaluate_single_case and evaluate_multiagent_workflow an exception
\* raised while scoring a metric becomes a score of 0.0 with passed = false
\* for that metric and does not abort the others: during the loop and in the
\* returned result there is one score per requested metric, in request
\* order, tagged with the requested metric, and the metrics that did not
\* fail keep the scores their evaluators returned.
C4_MetricFailureIsolated ==
    /\ pc \in {"metric_loop", "judge_wait"} =>
        (Len(scores) = metricIdx - 1 /\ IsolatedScores(scores))
    /\ SingleCaseDone =>
        /\ Len(LastResult.scores) = Len(request.evaluators)
        /\ IsolatedScores(LastResult.scores)
    /\ WorkflowDone =>
        /\ Len(result.scores) = Len(request.evaluators)
        /\ IsolatedScores(result.scores)

\* C4 witness: a workflow result of two metrics whose first evaluator raised
\* and whose second one returned 1.0.
C4_Witness ==
    /\ WorkflowDone
    /\ Len(result.scores) = 2
    /\ evalLog[1].raised /\ ~evalLog[2].raised
    /\ result.scores[1].score = 0 /\ result.scores[2].score = 100

UnmappedRequested ==
    \E i \in 1..Len(request.evaluators) : request.evaluators[i] \notin metric_mapping

\* C5: when the agent function times out the evaluated response is "Agent
\* execution timed out", when it raises it is "Agent execution failed:
\* <message>"; the test case is then scored like a normal response: every
\* judge prompt shows the placeholder, every requested metric gets a score,
\* the judge is called for every metric that does not return early, and the
\* test case yields a scored result.  (The result is the failed one only if
\* resolving the evaluators of an unmapped metric raised.)
C5_PlaceholderIsScored ==
    /\ (request.type = "single" /\ pc \in {"esc_enter", "metric_loop", "judge_wait"}) =>
        /\ agentOutcome = "timeout" => agent_response = "Agent execution timed out"
        /\ agentOutcome = "raises" => agent_response = "Agent execution failed: boom"
        /\ agentOutcome = "returns" => agent_response = "response"
    /\ (request.type = "single" /\ pc \in {"metric_loop", "judge_wait"}) =>
        \A j \in 1..Len(judgeLog) : judgeLog[j].shown = agent_response
    /\ (request.type = "single" /\ pc = "ea_loop" /\ Len(results) > 0) =>
        (LastResult.metadata = "error" => UnmappedRequested)
    /\ (SingleCaseDone /\ pc # "esc_enter" /\ agentOutcome \in {"timeout", "raises"}) =>
        /\ LastResult.metadata = "none"
        /\ Len(LastResult.scores) = Len(request.evaluators)
        /\ \A j \in 1..Len(judgeLog) : judgeLog[j].shown = agent_response
        /\ \A i \in 1..Len(evalLog) :
            (~evalLog[i].raised
              /\ ~ShortCircuit(get_metric_evaluators(request.evaluators)[i], input_data).hit)
                => evalLog[i].judged
        /\ Len(judgeLog) = Cardinality({i \in 1..Len(evalLog) : evalLog[i].judged})

\* C5 witness: the agent timed out and both metrics of the request were
\* scored by the judge on the placeholder.
C5_Witness ==
    /\ SingleCaseDone /\ pc = "ea_loop"
    /\ agentOutcome = "timeout"
    /\ Len(LastResult.scores) = 2
    /\ Len(judgeLog) = 2
    /\ judgeLog[2].shown = "Agent execution timed out"
    /\ LastResult.passed

\* The scenario of C6: two test cases, evaluators [accuracy, relevance], the
\* agent function raised on the second test case, and every score the judge
\* gave is 1.0.
C6_Scenario ==
    /\ pc = "done" /\ call = "evaluate_agent"
    /\ request.invalid = "none"
    /\ request.ncases = 2
    /\ request.evaluators = <<"accuracy", "relevance">>
    /\ agentOutcome = "raises"
    /\ response.kind = "return" =>
        \A i \in 1..Len(response.value.results) :
            \A k \in 1..Len(response.value.results[i].scores) :
                /\ response.value.results[i].scores[k].score = 100
                /\ response.value.results[i].scores[k].explanation = <<"perfect">>

\* C6 as claimed: the scenario yields total_tests = 2, exactly one passed
\* result, and one result with overall_score 0.0, passed = false and an
\* error in its metadata; the request does not raise.
C6_AgentFailureFailsCase ==
    C6_Scenario =>
        /\ response.kind = "return"
        /\ response.value.total_tests = 2
        /\ response.value.passed_tests = 1
        /\ \E i \in 1..Len(response.value.results) :
            /\ response.value.results[i].overall_score.n = 0
            /\ ~response.value.results[i].passed
            /\ response.value.results[i].metadata = "error"

\* C6 as amended: the scenario yields total_tests = 2 and does not raise, and
\* the second test case is scored on the placeholder like any response, so
\* both results have overall_score 1.0 and passed = true, passed_tests = 2,
\* failed_tests = 0, and no result has an error in its metadata.
C6_AgentFailureIsScored ==
    C6_Scenario =>
        /\ response.kind = "return"
        /\ response.value.total_tests = 2
        /\ response.value.passed_tests = 2
        /\ response.value.failed_tests = 0
        /\ response.value.average_score = [n |-> 100, d |-> 1]
        /\ \A i \in 1..2 :
            /\ Len(response.value.results[i].scores) = 2
            /\ response.value.results[i].overall_score = [n |-> 100, d |-> 1]
            /\ response.value.results[i].passed
            /\ response.value.results[i].metadata = "none"

\* C6 witness: the scenario has run to its end.
C6_Witness ==
    /\ C6_Scenario
    /\ response.kind = "return"
    /\ Len(response.value.results) = 2

BatchDone ==
    pc = "done" /\ call = "batch_evaluate_agents"

\* The batch entry `entry` is the record of the request `item`: the error
\* record holding the request, or the dictionary of the tool of its type.
EntryOf(entry, item) ==
    IF "error" \in DOMAIN entry
    THEN entry.request = item
    ELSE /\ item.invalid = "none"
         /\ IF item.type = "multiagent"
            THEN "result" \in DOMAIN entry /\ entry.workflow_id = item.workflow_id
            ELSE "results" \in DOMAIN entry /\ entry.agent_id = item.agent_id
                    /\ entry.total_tests = item.ncases

\* C7: batch_evaluate_agents never aborts on a failing item: whatever
\* requests raise (unknown metric, missing key, evaluator construction), the
\* results hold one entry per request so far in request order, a failing
\* item is an {error, request} record, the items after it are still
\* evaluated, the tool returns, and successful_evaluations +
\* failed_evaluations = total_evaluations = the number of requests.
C7_BatchNeverAborts ==
    /\ call = "batch_evaluate_agents" =>
        /\ response.kind # "raise"
        /\ Len(batchResults) <= Len(evaluations)
        /\ pc = "batch_loop" => Len(batchResults) = bi - 1
        /\ \A i \in 1..Len(batchResults) :
            /\ EntryOf(batchResults[i], evaluations[i])
            /\ evaluations[i].invalid # "none" => "error" \in DOMAIN batchResults[i]
    /\ BatchDone =>
        /\ response.kind = "return"
        /\ response.value.results = batchResults
        /\ Len(response.value.results) = Len(evaluations)
        /\ response.value.total_evaluations = Len(evaluations)
        /\ response.value.successful_evaluations + response.value.failed_evaluations
                = response.value.total_evaluations
        /\ response.value.failed_evaluations
                = Cardinality({i \in 1..Len(batchResults) : "error" \in DOMAIN batchResults[i]})

\* C7 witness: a returned batch of two requests whose first item failed and
\* whose second item was evaluated.
C7_Witness ==
    /\ BatchDone
    /\ Len(response.value.results) = 2
    /\ "error" \in DOMAIN response.value.results[1]
    /\ "results" \in DOMAIN response.value.results[2]
    /\ response.value.results[2].total_tests = 1
    /\ response.value.failed_evaluations = 1

\* The score a successfully completed batch item achieved: the average
\* score of a single-agent item, the overall score of a workflow item.
AchievedScore(entry) ==
    IF "average_score" \in DOMAIN entry THEN entry.average_score
    ELSE entry.result.overall_score

\* C8: the overall average score of a batch is the mean, over the items that
\* completed successfully, single-agent and multi-agent alike, of the score
\* each achieved; it is 0.0 when no item completed.
C8_AverageOverCompleted ==
    BatchDone =>
        LET ok == SuccessfulResults(response.value.results)
            achieved == [i \in 1..Len(ok) |-> AchievedScore(ok[i])]
        IN  response.value.overall_average_score
                = IF ok = <<>> THEN Rat(0, 1)
                  ELSE RatDiv(RatSum(achieved), Len(ok))

\* evaluate_agent2agent_flow has extended the result of the workflow
\* evaluation, whose scores are still in `scores`.
A2ADone ==
    /\ pc = "mw_return"
    /\ request.type = "multiagent"
    /\ request.workflow_type = "agent2agent"

\* The result `r` is the base scores followed by one agent_coordination
\* score, with overall_score and passed computed over all of them.
ExtendedResult(r) ==
    LET n == Len(request.evaluators) IN
    /\ Len(r.scores) = n + 1
    /\ \A i \in 1..n : r.scores[i].metric = request.evaluators[i]
    /\ r.scores[n + 1].metric = "agent_coordination"
    /\ r.overall_score.d > 0
    /\ r.overall_score.n * (n + 1) = SumSeq(ScoreValues(r.scores)) * r.overall_score.d
    /\ r.passed <=> (10 * r.overall_score.n >= 7 * 100 * r.overall_score.d)

\* C9: the result of evaluate_agent2agent_flow has the scores of the base
\* workflow evaluation, one per requested metric in order, followed by
\* exactly one more score tagged agent_coordination, also when the request
\* already names agent_coordination or names no metric; overall_score and
\* passed are those of the extended list.
C9_OneCoordinationScoreAppended ==
    /\ A2ADone =>
        /\ ExtendedResult(result)
        /\ SubSeq(result.scores, 1, Len(request.evaluators)) = scores
    /\ (pc = "done" /\ call = "evaluate_multiagent_workflow"
            /\ response.kind = "return"
            /\ request.workflow_type = "agent2agent") =>
        ExtendedResult(response.value.result)

\* C9 witness: the request names agent_coordination itself, the result has
\* three scores, and the mean of the extended list differs from the mean of
\* the base scores.
C9_Witness ==
    /\ A2ADone
    /\ Len(result.scores) = 3
    /\ request.evaluators[1] = "agent_coordination"
    /\ result.scores[3].metric = "agent_coordination"
    /\ result.overall_score # OverallScore(scores)

LastSink == sinkLog[Len(sinkLog)]

\* The sink was called for the evaluation `evaluation_id`, which is one of
\* the current tool call: its id was drawn after the session's.
SinkCalled ==
    /\ sinkLog # <<>>
    /\ LastSink.evaluation_id = evaluation_id
    /\ evaluation_id.n > session_id.n

\* The result `r` is what the metric loop produced, whatever the sink did:
\* its scores are the scores handed to the sink, one per entry of the
\* evaluation log, overall_score and passed follow from them, and the trace
\* id is the evaluation id unless the sink returned a trace with an id.
IndependentOfSink(r) ==
    /\ r.evaluation_id = evaluation_id
    /\ r.scores = LastSink.scores
    /\ Len(r.scores) = Len(evalLog)
    /\ \A i \in 1..Len(evalLog) :
        r.scores[i].score = IF evalLog[i].raised THEN 0 ELSE evalLog[i].value
    /\ r.overall_score.n * Len(r.scores)
            = SumSeq([i \in 1..Len(evalLog) |->
                        IF evalLog[i].raised THEN 0 ELSE evalLog[i].value])
                * r.overall_score.d
    /\ r.passed <=> (10 * r.overall_score.n >= 7 * 100 * r.overall_score.d)
    /\ LastSink.outcome = "raises" => r.opik_trace_id = r.evaluation_id
    /\ LastSink.outcome = "no_id" => r.opik_trace_id = r.evaluation_id
    /\ LastSink.outcome = "ok" => r.opik_trace_id = [k |-> "trace", n |-> r.evaluation_id.n]

\* C10: the evaluation does not depend on the sink: once the sink has been
\* called, evaluate_single_case and evaluate_multiagent_workflow return a
\* result, whether the sink succeeded or raised, whose scores, overall_score
\* and passed are those of the metric loop; when the sink raised,
\* opik_trace_id is the evaluation_id.
C10_SinkFailureIsolated ==
    /\ (SinkCalled /\ request.type = "single"
            /\ pc \in {"ea_loop", "agent_wait", "esc_enter"}) =>
        /\ SingleCaseDone
        /\ LastResult.metadata = "none"
        /\ IndependentOfSink(LastResult)
    /\ (SinkCalled /\ request.type = "multiagent" /\ pc \in {"a2a", "a2a_wait"}) =>
        /\ "overall_score" \in DOMAIN result
        /\ IndependentOfSink(result)
    /\ (SinkCalled /\ WorkflowDone) =>
        IndependentOfSink(result)

\* C10 witness: the sink raised and the test case has its passing result,
\* whose opik_trace_id is the evaluation_id.
C10_Witness ==
    /\ SingleCaseDone
    /\ SinkCalled
    /\ LastSink.outcome = "raises"
    /\ LastResult.passed
    /\ Len(LastResult.scores) = 2
    /\ LastResult.opik_trace_id = evaluation_id

\* C11: every EvaluationResult an evaluator returns, the failed results of
\* evaluate_agent included, has an opik_trace_id that is not None.
C11_TraceIdNeverNone ==
    \A r \in Produced : r.opik_trace_id # NoId

\* A tool is about to convert a request that names an unknown metric.
RejectedRequest ==
    pc \in {"ea_enter", "mw_enter"} /\ request.invalid = "unknown_metric"

\* C12: the tools evaluate_agent and evaluate_multiagent_workflow reject a
\* request that names an unknown metric before any work is done: the step
\* that serves it raises ValueError to the caller (the client, or the batch
\* that records it), calls neither the agent nor the judge nor the sink,
\* leaves total_evaluations as it was, and leaves active_sessions without
\* the session id it had registered.
C12_UnknownMetricRejected ==
    [][RejectedRequest =>
        /\ UNCHANGED <<total_evaluations, active_sessions>>
        /\ Uuid("session", nextId) \notin active_sessions'
        /\ UNCHANGED <<agentOutcome, agent_response, judgeLog, evalLog, sinkLog>>
        /\ UNCHANGED <<results, result, scores, evaluation_id>>
        /\ IF call = "batch_evaluate_agents"
           THEN /\ pc' = "batch_loop"
                /\ batchResults' = Append(batchResults,
                        [error |-> "ValueError", request |-> request])
           ELSE /\ pc' = "done"
                /\ response' = [kind |-> "raise", error |-> "ValueError"]
      ]_vars

\* C12 witness: the workflow tool has rejected a request with an unknown
\* metric; nothing was judged or recorded and no session is left.
C12_Witness ==
    /\ pc = "done" /\ call = "evaluate_multiagent_workflow"
    /\ request.invalid = "unknown_metric"
    /\ response = [kind |-> "raise", error |-> "ValueError"]
    /\ judgeLog = <<>> /\ sinkLog = <<>>
    /\ total_evaluations = 0
    /\ active_sessions = {}

\* A tool called by the client has ended for a request that passed the
\* conversion to models.
ValidRequestDone ==
    /\ pc = "done"
    /\ call \in {"evaluate_agent", "evaluate_multiagent_workflow"}
    /\ request.invalid = "none"

\* C13: for every request that passes validation the tools evaluate_agent and
\* evaluate_multiagent_workflow (the agent2agent path included) return a
\* complete result and do not raise: the summary with one result per test
\* case, or the dictionary with the workflow's result.
C13_ValidRequestNeverRaises ==
    ValidRequestDone =>
        /\ response.kind = "return"
        /\ call = "evaluate_agent" =>
            Len(response.value.results) = request.ncases
        /\ call = "evaluate_multiagent_workflow" =>
            "overall_score" \in DOMAIN response.value.result

\* The tool evaluate_agent has returned its summary to the client.
AgentSummaryReturned ==
    pc = "done" /\ call = "evaluate_agent" /\ response.kind = "return"

\* The summary `v` agrees with its results.
ConsistentSummary(v) ==
    /\ v.total_tests = Len(v.results)
    /\ v.passed_tests + v.failed_tests = v.total_tests
    /\ v.passed_tests = Cardinality({i \in 1..Len(v.results) : v.results[i].passed})
    /\ v.average_score.d > 0
    /\ v.results = <<>> => v.average_score.n = 0
    /\ \E den \in {1, 2, 3, 6} :
        /\ \A i \in 1..Len(v.results) : den % v.results[i].overall_score.d = 0
        /\ v.average_score.n * Len(v.results) * den
            = SumSeq([i \in 1..Len(v.results) |->
                    v.results[i].overall_score.n * (den \div v.results[i].overall_score.d)])
                * v.average_score.d

\* C14: the summary evaluate_agent returns agrees with its results:
\* total_tests is the number of test cases, passed_tests + failed_tests =
\* total_tests, passed_tests counts the results with passed = true, and
\* average_score is the mean of the results' overall_score (0.0 for no test
\* case); when every score the judge gave for 2 test cases and the metrics
\* [accuracy, relevance] is 1.0, the summary is 2, 2, 0 and 1.0.
C14_SummaryConsistent ==
    /\ AgentSummaryReturned =>
        /\ response.value.total_tests = request.ncases
        /\ ConsistentSummary(response.value)
        /\ (/\ request.ncases = 2
            /\ request.evaluators = <<"accuracy", "relevance">>
            /\ \A i \in 1..2 : \A k \in 1..2 :
                    response.value.results[i].scores[k].score = 100) =>
                /\ response.value.total_tests = 2
                /\ response.value.passed_tests = 2
                /\ response.value.failed_tests = 0
                /\ response.value.average_score = [n |-> 100, d |-> 1]
    /\ \A i \in 1..Len(batchResults) :
        "average_score" \in DOMAIN batchResults[i] => ConsistentSummary(batchResults[i])

\* C14 witness: a summary of two results, one passed with 0.85 and one
\* failed with 0.0, whose average_score is 0.425.
C14_Witness ==
    /\ AgentSummaryReturned
    /\ response.value.total_tests = 2
    /\ response.value.passed_tests = 1
    /\ response.value.failed_tests = 1
    /\ response.value.results[1].overall_score = [n |-> 85, d |-> 1]
    /\ response.value.results[2].overall_score = [n |-> 0, d |-> 1]
    /\ response.value.average_score = [n |-> 85, d |-> 2]

\* The lines of the text `t` that start with SCORE: and with EXPLANATION:,
\* whatever the case of the letters.
ScoreIdx(t) == {i \in 1..Len(t) : t[i].key \in {"SCORE", "Score", "score"}}
ExplanationIdx(t) ==
    {i \in 1..Len(t) : t[i].key \in {"EXPLANATION", "Explanation", "explanation"}}

Last(S) == CHOOSE i \in S : \A j \in S : j <= i

\* The value of the SCORE: line `l` does not parse as a number.
Unparsable(l) == l.words # <<>> /\ ~Float(Head(l.words)).ok

\* The number of the SCORE: line `l`, in hundredths.
ValueOf(l) == Float(IF l.words # <<>> THEN Head(l.words) ELSE "0.5").val

Parsed == parse_result.returned

\* The text holds the two well-formed lines of C15.
HasBothLines ==
    /\ \E i \in 1..Len(response_text) : response_text[i] = Line("SCORE", <<"0.83">>)
    /\ \E i \in 1..Len(response_text) :
        response_text[i] = Line("EXPLANATION", <<"looks", "good">>)

\* C15 as claimed: for a response text that holds a line `SCORE: 0.83` and a
\* line `EXPLANATION: looks good`, whatever the other lines, the parser
\* returns (0.83, "looks good").
C15_ParsesWellFormedAnywhere ==
    (Parsed /\ HasBothLines) =>
        /\ parse_result.score = 83
        /\ parse_result.explanation = <<"looks", "good">>

\* C15 as amended: the parser returns (0.83, "looks good") when `SCORE:
\* 0.83` is the last SCORE: line of the text, `EXPLANATION: looks good` is
\* its last EXPLANATION: line, and no SCORE: line has a value that is not a
\* number; the lines may come in any order among other lines.
C15_ParsesLastWellFormed ==
    (/\ Parsed
     /\ HasBothLines
     /\ response_text[Last(ScoreIdx(response_text))] = Line("SCORE", <<"0.83">>)
     /\ response_text[Last(ExplanationIdx(response_text))]
            = Line("EXPLANATION", <<"looks", "good">>)
     /\ \A i \in ScoreIdx(response_text) : ~Unparsable(response_text[i])) =>
        /\ parse_result.score = 83
        /\ parse_result.explanation = <<"looks", "good">>

\* C15 witness: the explanation comes first, an earlier SCORE: line has
\* another value, and the parser returned (0.83, "looks good").
C15_Witness ==
    /\ Parsed
    /\ response_text = <<Line("EXPLANATION", <<"looks", "good">>),
                         Line("SCORE", <<"1.4">>), Line("SCORE", <<"0.83">>)>>
    /\ parse_result.score = 83
    /\ parse_result.explanation = <<"looks", "good">>

\* C16: the score the parser returns is within [0.0, 1.0] for every response
\* text; when the text parses and the number of its last SCORE: line is
\* above 1 the score is 1.0, when it is below 0 the score is 0.0.
C16_ScoreClamped ==
    Parsed =>
        /\ parse_result.score # NaN
        /\ parse_result.score >= 0
        /\ parse_result.score <= 100
        /\ (/\ ScoreIdx(response_text) # {}
            /\ \A i \in ScoreIdx(response_text) : ~Unparsable(response_text[i])) =>
            LET v == ValueOf(response_text[Last(ScoreIdx(response_text))]) IN
            /\ (v # NaN /\ v > 100) => parse_result.score = 100
            /\ (v # NaN /\ v < 0) => parse_result.score = 0
            /\ (v # NaN /\ v >= 0 /\ v <= 100) => parse_result.score = v

\* C16 witness: the last SCORE: line says -0.3 after one that says 1.4, and
\* the score is 0.0.
C16_Witness ==
    /\ Parsed
    /\ Len(response_text) = 2
    /\ response_text[1] = Line("SCORE", <<"1.4">>)
    /\ response_text[2] = Line("SCORE", <<"-0.3">>)
    /\ parse_result.score = 0

\* C17: for a response text without a line that starts with SCORE: the
\* parser returns the score 0.5, with the explanation "Evaluation completed"
\* when there is no EXPLANATION: line and with the text of the (last)
\* EXPLANATION: line when there is one.
C17_NoScoreLineIsHalf ==
    (Parsed /\ ScoreIdx(response_text) = {}) =>
        /\ parse_result.score = 50
        /\ parse_result.explanation =
            IF ExplanationIdx(response_text) = {}
            THEN <<"Evaluation completed">>
            ELSE response_text[Last(ExplanationIdx(response_text))].words

\* C17 witness: a text of an ordinary line and an EXPLANATION: line.
C17_Witness ==
    /\ Parsed
    /\ response_text = <<Line("Note", <<"SCORE", "0.2">>), Line("EXPLANATION", <<"fine">>)>>
    /\ parse_result.score = 50
    /\ parse_result.explanation = <<"fine">>

\* C18: the parser never raises, it returns for every response text; for a
\* text with a SCORE: line whose value is not a number it returns the score
\* 0.5 and an explanation that begins "Failed to parse evaluation",
\* whatever EXPLANATION: line and whatever well-formed SCORE: line the text
\* also holds.
C18_ParseFailureIsHalf ==
    /\ ~Parsed => ENABLED parse_response
    /\ (Parsed /\ \E i \in ScoreIdx(response_text) : Unparsable(response_text[i])) =>
        /\ parse_result.score = 50
        /\ parse_result.explanation = <<"Failed to parse evaluation">>

\* C18 witness: a well-formed SCORE: line and an EXPLANATION: line come
\* before the SCORE: line that does not parse.
C18_Witness ==
    /\ Parsed
    /\ response_text = <<Line("SCORE", <<"0.83">>), Line("EXPLANATION", <<"fine">>),
                         Line("SCORE", <<"high">>)>>
    /\ parse_result.score = 50

\* The metric loop of an evaluation is running; scores, evalLog and judgeLog
\* are those of this evaluation.
InMetricLoop == pc \in {"metric_loop", "judge_wait"}

\* The evaluator that scores the i-th requested metric.
EvaluatorAt(i) == get_metric_evaluators(request.evaluators)[i]

\* The judge calls made so far by the evaluator `e`, and the score calls of
\* `e` that have called the judge.
JudgeCallsOf(e) == {j \in 1..Len(judgeLog) : judgeLog[j].evaluator = e}
JudgedScoreCallsOf(e) ==
    {i \in 1..Len(evalLog) : EvaluatorAt(i) = e /\ evalLog[i].judged}
        \cup {i \in {metricIdx} : pc = "judge_wait" /\ EvaluatorAt(i) = e}

\* C19: the conversation-quality metric on a conversation with no message
\* (the flattened conversation is then empty too) returns exactly
\* (0.0, "No conversation data provided") and does not call the judge; with
\* at least one message it calls the judge exactly once.
C19_EmptyConversationNotJudged ==
    InMetricLoop =>
        /\ input_data.messages = <<>> => input_data.conversation = <<>>
        /\ \A i \in 1..Len(evalLog) :
            (EvaluatorAt(i) = "conversation_quality" /\ ~evalLog[i].raised) =>
                IF input_data.messages = <<>>
                THEN /\ scores[i].score = 0
                     /\ scores[i].explanation = <<"No conversation data provided">>
                     /\ ~evalLog[i].judged
                ELSE evalLog[i].judged
        /\ input_data.messages = <<>> => JudgeCallsOf("conversation_quality") = {}
        /\ Cardinality(JudgeCallsOf("conversation_quality"))
                = Cardinality(JudgedScoreCallsOf("conversation_quality"))

\* C19 witness: a workflow without messages whose conversation-quality
\* metric was scored 0.0 without a judge call.
C19_Witness ==
    /\ pc = "metric_loop" /\ request.type = "multiagent"
    /\ request.nmsgs = 0
    /\ Len(scores) = 1
    /\ scores[1].metric = "conversation_quality"
    /\ scores[1].explanation = <<"No conversation data provided">>
    /\ judgeLog = <<>>

\* C20: the agent-coordination metric on a conversation of fewer than 2
\* messages (none, or exactly one) returns exactly (0.5, "Insufficient
\* messages for coordination evaluation") and does not call the judge; with
\* 2 or more messages it calls the judge exactly once.
C20_FewMessagesNotJudged ==
    InMetricLoop =>
        /\ \A i \in 1..Len(evalLog) :
            (EvaluatorAt(i) = "agent_coordination" /\ ~evalLog[i].raised) =>
                IF Len(input_data.messages) < 2
                THEN /\ scores[i].score = 50
                     /\ scores[i].explanation
                            = <<"Insufficient messages for coordination evaluation">>
                     /\ ~evalLog[i].judged
                ELSE evalLog[i].judged
        /\ Len(input_data.messages) < 2 => JudgeCallsOf("agent_coordination") = {}
        /\ Cardinality(JudgeCallsOf("agent_coordination"))
                = Cardinality(JudgedScoreCallsOf("agent_coordination"))

\* C20 witness: a workflow of exactly one message whose agent-coordination
\* metric was scored 0.5 without a judge call.
C20_Witness ==
    /\ pc = "metric_loop" /\ request.type = "multiagent"
    /\ request.nmsgs = 1
    /\ Len(scores) >= 1
    /\ scores[1].metric = "agent_coordination"
    /\ scores[1].score = 50
    /\ scores[1].explanation = <<"Insufficient messages for coordination evaluation">>
    /\ judgeLog = <<>>

\* The metrics without an evaluator of their own, and the evaluators that
\* judge the agent's response.
UnmappedMetrics == {"completeness", "factuality", "toxicity", "bias"}
ResponseEvaluators == {"accuracy", "relevance", "coherence", "helpfulness"}

AnswersOf(c) ==
    [i \in 1..Len(c.log) |-> [raised |-> c.log[i].raised, answer |-> c.log[i].answer]]

\* Two recorded calls got the same arguments and the same answers.
SameInputs(a, b) ==
    /\ a.metrics = b.metrics
    /\ a.agent_response = b.agent_response
    /\ AnswersOf(a) = AnswersOf(b)

\* C22: evaluate_single_case is deterministic in its inputs: two calls with
\* the same agent response and metric list, whose evaluators got the same
\* answers from the judge, return the same scores, overall_score and passed,
\* whatever was evaluated before and whatever the sink did; the evaluation
\* ids differ.
C22_SingleCaseDeterministic ==
    \A i \in 1..Len(history) : \A j \in 1..Len(history) :
        (i # j /\ SameInputs(history[i], history[j])) =>
            /\ history[i].scores = history[j].scores
            /\ history[i].overall_score = history[j].overall_score
            /\ history[i].passed = history[j].passed
            /\ history[i].evaluation_id # history[j].evaluation_id

\* C22 witness: two calls with the same inputs and answers, one judged
\* metric each way, the sink succeeding only for the first, and equal
\* two-score lists.
C22_Witness ==
    /\ Len(history) = 2
    /\ SameInputs(history[1], history[2])
    /\ Len(history[1].scores) = 2
    /\ history[1].log[1].judged
    /\ history[1].opik_trace_id # history[1].evaluation_id
    /\ history[2].opik_trace_id = history[2].evaluation_id
    /\ history[1].scores = history[2].scores

\* The score calls of the current evaluation that have called the judge, the
\* one that is waiting for it included, and the k-th of them.
JudgedCalls ==
    {i \in 1..Len(evalLog) : evalLog[i].judged}
        \cup {i \in {metricIdx} : pc = "judge_wait"}
NthJudged(k) ==
    CHOOSE i \in JudgedCalls : Cardinality({x \in JudgedCalls : x <= i}) = k

\* The sink records of the current evaluate_agent request: their evaluation
\* ids were drawn after the request's session id.
SinkRecordsOfRequest ==
    {j \in 1..Len(sinkLog) : sinkLog[j].evaluation_id.n > session_id.n}

\* The invocations of the request that have not returned yet.
Outstanding ==
    (IF pc = "agent_wait" THEN 1 ELSE 0) + (IF pc = "judge_wait" THEN 1 ELSE 0)

\* C23: an evaluate_agent request is processed strictly in sequence: at most
\* one agent or judge invocation is outstanding; while the agent of a test
\* case is called every earlier test case has its result and its sink
\* record; the judge calls of a test case are made for the requested
\* metrics in request order, after the agent call and before the one sink
\* record, which holds the scores of all metrics.
C23_StrictlySequential ==
    (InEvaluateAgent /\ session_id # NoId) =>
        /\ Outstanding <= 1
        /\ Len(results) = tcIdx - 1
        /\ Cardinality(SinkRecordsOfRequest)
                = Cardinality({i \in 1..Len(results) : results[i].metadata = "none"})
        /\ \A i \in 1..Len(results) :
            results[i].metadata = "none" =>
                Cardinality({j \in SinkRecordsOfRequest :
                    /\ sinkLog[j].evaluation_id = results[i].evaluation_id
                    /\ Len(sinkLog[j].scores) = Len(request.evaluators)}) = 1
        /\ \A j \in SinkRecordsOfRequest : \A k \in SinkRecordsOfRequest :
            j < k => \E a \in 1..Len(results) : \E b \in 1..Len(results) :
                /\ a < b
                /\ results[a].evaluation_id = sinkLog[j].evaluation_id
                /\ results[b].evaluation_id = sinkLog[k].evaluation_id
        /\ InMetricLoop =>
            /\ agent_response # None
            /\ \A j \in 1..Len(sinkLog) : sinkLog[j].evaluation_id # evaluation_id
            /\ Len(judgeLog) = Cardinality(JudgedCalls)
            /\ \A k \in 1..Len(judgeLog) :
                judgeLog[k].evaluator = EvaluatorAt(NthJudged(k))

\* C23 witness: the agent is being called for the second test case after
\* the two metrics of the first one were judged and its sink record made.
C23_Witness ==
    /\ pc = "agent_wait" /\ request.type = "single"
    /\ tcIdx = 2
    /\ Len(judgeLog) = 2
    /\ judgeLog[1].evaluator = "accuracy" /\ judgeLog[2].evaluator = "relevance"
    /\ Cardinality(SinkRecordsOfRequest) = 1
    /\ Len(sinkLog[Len(sinkLog)].scores) = 2

\* The tool calls that have entered and not yet left.
InFlight == {r \in 1..MaxRequests : inflight[r].pc \in {"evaluating", "logging"}}

\* C24: under every interleaving of concurrent evaluate_agent and
\* evaluate_multiagent_workflow calls, active_sessions holds exactly the
\* session ids of the calls in flight, each call its own id: an id is added
\* on entry and removed on exit, whether the call returns or raises, so
\* active_sessions is empty whenever no call is in flight.
C24_ActiveSessionsAreInFlight ==
    /\ active_sessions = {inflight[r].session_id : r \in InFlight}
    /\ Cardinality(active_sessions) = Cardinality(InFlight)
    /\ InFlight = {} => active_sessions = {}

\* C24 witness: one call has returned, one has raised after entering, and no
\* session is left.
C24_Witness ==
    /\ \E r \in 1..MaxRequests :
        inflight[r].pc = "returned" /\ inflight[r].nresults > 0
    /\ \E r \in 1..MaxRequests :
        inflight[r].pc = "raised" /\ inflight[r].tool = "evaluate_multiagent_workflow"
    /\ active_sessions = {}
    /\ nextId > MaxRequests

\* The results of the calls that have returned.
ReturnedResults ==
    SumSeq([r \in 1..MaxRequests |->
        IF inflight[r].pc = "returned" THEN inflight[r].nresults ELSE 0])

\* C25: under every interleaving of concurrent calls total_evaluations
\* never decreases and counts each result once: it is the sum, over the
\* calls that have returned, of the number of results returned (the number
\* of test cases for evaluate_agent, 1 for evaluate_multiagent_workflow);
\* calls that raised add nothing.
C25_TotalCountsEachResultOnce ==
    /\ [](total_evaluations = ReturnedResults)
    /\ [][total_evaluations' >= total_evaluations]_vars

\* C25 witness: a workflow call entered first and is still in flight; an
\* evaluate_agent call that entered after it has returned its two results.
C25_Witness ==
    /\ inflight[1].pc = "logging" /\ inflight[1].tool = "evaluate_multiagent_workflow"
    /\ inflight[2].pc = "returned" /\ inflight[2].tool = "evaluate_agent"
    /\ inflight[2].nresults = 2
    /\ inflight[1].session_id.n < inflight[2].session_id.n
    /\ total_evaluations = 2

\* evaluate_agent has returned one result per test case to the tool, which
\* has returned its summary.
ReturnedFullList ==
    /\ pc = "done"
    /\ response.kind = "return"
    /\ Len(response.value.results) = request.ncases

\* C26: evaluate_agent eventually terminates with its full result list even
\* when the agent function never returns on some test case: the wait for
\* the agent is bounded by the timeout, after which the placeholder text
\* "Agent execution timed out" stands for the response and is evaluated,
\* provided every judge invocation and sink call returns.
C26_EvaluateAgentTerminates ==
    /\ [](pc = "esc_enter" /\ agentOutcome = "timeout" => agent_response = "Agent execution timed out")
    /\ (pc = "agent_wait") ~> ReturnedFullList

\* C26 witness: the agent ran into the timeout on the last of two test
\* cases and the tool has returned two results, the last one scored.
C26_Witness ==
    /\ ReturnedFullList
    /\ call = "evaluate_agent"
    /\ request.ncases = 2
    /\ agentOutcome = "timeout"
    /\ Len(response.value.results[2].scores) = Len(request.evaluators)

\* The result of a test case whose orchestration raised.
IsFailedResult(r) ==
    /\ r.scores = <<>>
    /\ r.overall_score = Rat(0, 1)
    /\ r.passed = FALSE
    /\ r.metadata = "error"

\* evaluate_single_case raises before its metric loop: the step from the
\* call straight back to the loop over the test cases.
OrchestrationRaises == pc = "esc_enter" /\ pc' = "ea_loop"

\* C27: an exception raised in the per-case orchestration of evaluate_agent
\* (outside the agent call) appends for that test case a failed result with
\* empty scores, overall_score 0.0, passed=false and the error in metadata,
\* and the loop goes on: the request is not aborted, every later test case
\* is executed and evaluated, and the list returned has a result for each.
C27_OrchestrationFailureIsolated ==
    /\ [][OrchestrationRaises =>
            /\ Len(results') = Len(results) + 1
            /\ IsFailedResult(results'[Len(results')])
            /\ results'[Len(results')].test_case_id = tcIdx
            /\ \A i \in 1..Len(results) : results'[i] = results[i]
            /\ tcIdx' = tcIdx + 1
            /\ UNCHANGED <<call, request, response, session_id, active_sessions>>]_vars
    /\ [](InEvaluateAgent =>
            \A i \in 1..Len(results) :
                \/ IsFailedResult(results[i])
                \/ /\ results[i].metadata = "none"
                   /\ Len(results[i].scores) = Len(request.evaluators))
    /\ []((pc = "ea_loop" /\ tcIdx > request.ncases) => Len(results) = request.ncases)

\* C27 witness: the orchestration of the first of two test cases raised, the
\* agent returned on the second, whose two metrics were scored, and the tool
\* has returned both results.
C27_Witness ==
    /\ pc = "done" /\ call = "evaluate_agent" /\ response.kind = "return"
    /\ request.ncases = 2
    /\ IsFailedResult(response.value.results[1])
    /\ agentOutcome = "returns"
    /\ Len(response.value.results[2].scores) = 2
    /\ response.value.results[2].metadata = "none"

\* The scores `sc` against the log of the evaluation: a metric whose judge
\* call failed was scored from the sentinel text, without an exception, with
\* the parser's default 0.5 and passed = false; a metric whose judge call
\* answered has the score parsed from its own answer.
JudgeFailuresAbsorbed(sc) ==
    /\ Len(evalLog) = Len(sc)
    /\ \A i \in 1..Len(sc) :
        /\ evalLog[i].failed =>
            /\ evalLog[i].judged /\ ~evalLog[i].raised
            /\ evalLog[i].answer = SentinelText
            /\ sc[i].metric = request.evaluators[i]
            /\ sc[i].score = 50
            /\ ~sc[i].passed
        /\ (evalLog[i].judged /\ ~evalLog[i].raised /\ ~evalLog[i].failed) =>
            /\ evalLog[i].answer \in JudgeTexts
            /\ sc[i].score = parse_llm_response(evalLog[i].answer).score

\* Every requested metric was scored by a judge call, and every call failed.
EveryMetricJudgeFailed ==
    /\ evalLog # <<>>
    /\ \A i \in 1..Len(evalLog) : evalLog[i].failed

\* No metric raised, the judge was called, and every call of it failed.
EveryJudgeCallFailed ==
    /\ \E i \in 1..Len(evalLog) : evalLog[i].judged
    /\ \A i \in 1..Len(evalLog) :
        /\ ~evalLog[i].raised
        /\ evalLog[i].judged => evalLog[i].failed

NeutralAndFailed(r) == r.overall_score = Rat(50, 1) /\ ~r.passed

SinkRecordsOfEvaluation ==
    {j \in 1..Len(sinkLog) : sinkLog[j].evaluation_id = evaluation_id}

\* The judge calls made for the protocol-compliance score.
ComplianceCalls ==
    {k \in 1..Len(judgeLog) : judgeLog[k].evaluator = "a2a_protocol"}

\* The one sink record of the evaluation holds the scores of the metric
\* loop, one per requested metric.
BaseScoresRecorded ==
    /\ Cardinality(SinkRecordsOfEvaluation) = 1
    /\ LastSink.evaluation_id = evaluation_id
    /\ LastSink.scores = scores
    /\ Len(LastSink.scores) = Len(request.evaluators)

\* The result `r` is returned with one score more than the sink recorded.
ExtendsRecorded(r) ==
    /\ Len(r.scores) = Len(LastSink.scores) + 1
    /\ SubSeq(r.scores, 1, Len(LastSink.scores)) = LastSink.scores
    /\ r.scores # LastSink.scores

\* C29: in the agent-to-agent path the result sink is invoked exactly once,
\* by the base workflow evaluation and before the protocol-compliance score
\* is computed and appended: the sink record is there before the compliance
\* judge is called, it holds the scores before the extension, and the
\* scores of the result returned to the caller are these plus one.
C29_SinkSeesBaseScores ==
    /\ (request.type = "multiagent" /\ request.workflow_type = "agent2agent") =>
        /\ pc = "a2a" => (BaseScoresRecorded /\ ComplianceCalls = {}
                            /\ result.scores = LastSink.scores)
        /\ pc = "a2a_wait" => (BaseScoresRecorded /\ result.scores = LastSink.scores)
        /\ pc = "mw_return" => (BaseScoresRecorded /\ ExtendsRecorded(result))
        /\ (pc = "done" /\ call = "evaluate_multiagent_workflow"
                /\ response.kind = "return") =>
            (BaseScoresRecorded /\ ExtendsRecorded(response.value.result))

\* C29 witness: the tool has returned an agent-to-agent result with two
\* scores, the second from an answered compliance judge call, and the one
\* sink record holds the first score only.
C29_Witness ==
    /\ pc = "done" /\ call = "evaluate_multiagent_workflow"
    /\ response.kind = "return"
    /\ request.workflow_type = "agent2agent"
    /\ Len(response.value.result.scores) = 2
    /\ response.value.result.scores[2].score = 100
    /\ Len(LastSink.scores) = 1
    /\ Cardinality(ComplianceCalls) = 1

\* The metrics that read the messages or the conversation of the payload.
ConversationMetrics == {"conversation_quality", "agent_coordination", "workflow_efficiency"}

\* The scores `sc` against the log of a single-agent evaluation: a
\* conversation metric made no judge call, and unless its evaluator raised
\* it has the score of its early return.
ScoredWithoutJudge(sc) ==
    /\ Len(evalLog) = Len(sc)
    /\ \A k \in 1..Len(judgeLog) : judgeLog[k].evaluator \notin ConversationMetrics
    /\ \A i \in 1..Len(sc) :
        request.evaluators[i] \in ConversationMetrics =>
            /\ ~evalLog[i].judged
            /\ ~evalLog[i].raised =>
                sc[i].score = IF request.evaluators[i] = "conversation_quality"
                              THEN 0 ELSE 50
            /\ ~sc[i].passed

OnlyConversationMetrics ==
    \A i \in 1..Len(request.evaluators) : request.evaluators[i] \in ConversationMetrics

\* C30: in the single-agent path, whose payload holds no messages and no
\* conversation, conversation_quality always scores 0.0 and
\* agent_coordination and workflow_efficiency always score 0.5, without a
\* judge call, whatever the agent's response is; a request whose evaluators
\* are only these metrics never passes a test case.
C30_ConversationMetricsInSinglePath ==
    request.type = "single" =>
        /\ InMetricLoop =>
            /\ input_data.messages = <<>> /\ input_data.conversation = <<>>
            /\ ScoredWithoutJudge(scores)
            /\ pc = "judge_wait" => Metric \notin ConversationMetrics
        /\ SingleCaseDone =>
            /\ ScoredWithoutJudge(LastResult.scores)
            /\ OnlyConversationMetrics => ~LastResult.passed
        /\ (pc = "done" /\ call = "evaluate_agent" /\ response.kind = "return"
                /\ OnlyConversationMetrics) =>
            /\ response.value.passed_tests = 0
            /\ response.value.failed_tests = request.ncases

\* C30 witness: the agent returned a response, the two requested metrics
\* are conversation_quality and workflow_efficiency, scored 0.0 and 0.5
\* without a judge call, and the test case has not passed.
C30_Witness ==
    /\ SingleCaseDone
    /\ request.evaluators = <<"conversation_quality", "workflow_efficiency">>
    /\ agentOutcome = "returns"
    /\ judgeLog = <<>>
    /\ LastResult.scores[1].score = 0
    /\ LastResult.scores[2].score = 50
    /\ ~LastResult.passed

====
